---- MODULE Spec2Model ----
(***************************************************************************)
(* Model of the NASR dataset builders of scripts_v2: one pass over the     *)
(* rows of a primary CSV source builds the entities of a dataset           *)
(* (airports, navaids, fixes, runways, airways, ILS, departures, arrivals, *)
(* comms, frequencies), with per-run diagnostic counters, followed by the  *)
(* construction of the output list.                                        *)
(*                                                                         *)
(* Text is a sequence of one-character strings; Python's None is the       *)
(* value None; a float is <<"num", negative, integer part, fraction        *)
(* digits>>, or <<"inf", negative>>, or <<"nan">>.                         *)
(***************************************************************************)
EXTENDS Integers, Sequences, FiniteSets, TLC

(***************************************************************************)
(* Characters and text                                                     *)
(***************************************************************************)

\* Code points of the characters that occur in the modelled inputs.
Ascii ==
    (" " :> 32) @@ ("-" :> 45) @@ ("." :> 46) @@ ("0" :> 48) @@ ("1" :> 49) @@
    ("2" :> 50) @@ ("3" :> 51) @@ ("4" :> 52) @@ ("5" :> 53) @@ ("6" :> 54) @@
    ("7" :> 55) @@ ("8" :> 56) @@ ("9" :> 57) @@ (":" :> 58) @@ ("A" :> 65) @@
    ("B" :> 66) @@ ("C" :> 67) @@ ("D" :> 68) @@ ("E" :> 69) @@ ("F" :> 70) @@
    ("G" :> 71) @@ ("H" :> 72) @@ ("I" :> 73) @@ ("J" :> 74) @@ ("K" :> 75) @@
    ("L" :> 76) @@ ("M" :> 77) @@ ("N" :> 78) @@ ("O" :> 79) @@ ("P" :> 80) @@
    ("Q" :> 81) @@ ("R" :> 82) @@ ("S" :> 83) @@ ("T" :> 84) @@ ("U" :> 85) @@
    ("V" :> 86) @@ ("W" :> 87) @@ ("X" :> 88) @@ ("Y" :> 89) @@ ("Z" :> 90) @@
    ("_" :> 95) @@ ("a" :> 97) @@ ("b" :> 98) @@ ("c" :> 99) @@ ("d" :> 100) @@
    ("e" :> 101) @@ ("f" :> 102) @@ ("g" :> 103) @@ ("h" :> 104) @@ ("i" :> 105) @@
    ("j" :> 106) @@ ("k" :> 107) @@ ("l" :> 108) @@ ("m" :> 109) @@ ("n" :> 110) @@
    ("o" :> 111) @@ ("p" :> 112) @@ ("q" :> 113) @@ ("r" :> 114) @@ ("s" :> 115) @@
    ("t" :> 116) @@ ("u" :> 117) @@ ("v" :> 118) @@ ("w" :> 119) @@ ("x" :> 120) @@
    ("y" :> 121) @@ ("z" :> 122) @@ ("|" :> 124)

\* The upper-case letter of each lower-case letter.
UpperOf ==
    ("a" :> "A") @@ ("b" :> "B") @@ ("c" :> "C") @@ ("d" :> "D") @@ ("e" :> "E") @@
    ("f" :> "F") @@ ("g" :> "G") @@ ("h" :> "H") @@ ("i" :> "I") @@ ("j" :> "J") @@
    ("k" :> "K") @@ ("l" :> "L") @@ ("m" :> "M") @@ ("n" :> "N") @@ ("o" :> "O") @@
    ("p" :> "P") @@ ("q" :> "Q") @@ ("r" :> "R") @@ ("s" :> "S") @@ ("t" :> "T") @@
    ("u" :> "U") @@ ("v" :> "V") @@ ("w" :> "W") @@ ("x" :> "X") @@ ("y" :> "Y") @@
    ("z" :> "Z")

DecimalDigits == <<"0", "1", "2", "3", "4", "5", "6", "7", "8", "9">>

\* The character of a decimal digit.
DigitChar(n) == DecimalDigits[n + 1]

\* Python's None.
None == <<"None">>

\* Python truthiness of an optional text: None and "" are false.
Falsy(v) == v = None \/ v = <<>>

\* Python's `a or b` on optional texts.
Or(a, b) == IF Falsy(a) THEN b ELSE a

RECURSIVE LStrip(_)
LStrip(s) == IF s # <<>> /\ Head(s) = " " THEN LStrip(Tail(s)) ELSE s

RECURSIVE RStrip(_)
RStrip(s) ==
    IF s # <<>> /\ s[Len(s)] = " " THEN RStrip(SubSeq(s, 1, Len(s) - 1)) ELSE s

\* str.strip()
StrStrip(s) == RStrip(LStrip(s))

UpperChar(c) == IF c \in DOMAIN UpperOf THEN UpperOf[c] ELSE c

\* str.upper()
StrUpper(s) == [i \in 1..Len(s) |-> UpperChar(s[i])]

\* Python's < on str: lexicographic by code point, a proper prefix first.
RECURSIVE StrLess(_, _)
StrLess(a, b) ==
    IF b = <<>> THEN FALSE
    ELSE IF a = <<>> THEN TRUE
    ELSE IF Ascii[Head(a)] # Ascii[Head(b)] THEN Ascii[Head(a)] < Ascii[Head(b)]
    ELSE StrLess(Tail(a), Tail(b))

\* Python's < on tuples of str.
RECURSIVE TupleLess(_, _)
TupleLess(a, b) ==
    IF b = <<>> THEN FALSE
    ELSE IF a = <<>> THEN TRUE
    ELSE IF Head(a) # Head(b) THEN StrLess(Head(a), Head(b))
    ELSE TupleLess(Tail(a), Tail(b))

\* row.get(key): the cell of a column, None when the row has no such column.
Get(row, key) == IF key \in DOMAIN row THEN row[key] ELSE None

\* _strip(row, key): the stripped cell, None when missing or blank.
Strip(row, key) ==
    LET v == Get(row, key)
    IN IF v = None THEN None
       ELSE LET t == StrStrip(v) IN IF t = <<>> THEN None ELSE t

\* (row.get(key) or "").strip()
GetStrip(row, key) == StrStrip(Or(Get(row, key), <<>>))

(***************************************************************************)
(* Numbers                                                                 *)
(***************************************************************************)

IsDigit(c) == Ascii[c] >= 48 /\ Ascii[c] <= 57

AllDigits(s) == \A i \in 1..Len(s) : IsDigit(s[i])

\* The value of a digit string.
RECURSIVE DigitsValue(_)
DigitsValue(s) ==
    IF s = <<>> THEN 0
    ELSE 10 * DigitsValue(SubSeq(s, 1, Len(s) - 1)) + (Ascii[s[Len(s)]] - 48)

Pow10(n) == CASE n = 0 -> 1 [] n = 1 -> 10 [] n = 2 -> 100 [] n = 3 -> 1000
              [] n = 4 -> 10000 [] n = 5 -> 100000 [] n = 6 -> 1000000

ValueError == <<"raise", "ValueError">>
OverflowError == <<"raise", "OverflowError">>

IsRaise(v) == Len(v) = 2 /\ v[1] = "raise"

\* Position of the first "." of s, 0 when there is none.
DotPos(s) ==
    IF \E i \in 1..Len(s) : s[i] = "."
    THEN CHOOSE i \in 1..Len(s) : s[i] = "." /\ \A j \in 1..(i - 1) : s[j] # "."
    ELSE 0

RECURSIVE RStripZeros(_)
RStripZeros(s) ==
    IF s # <<>> /\ s[Len(s)] = "0" THEN RStripZeros(SubSeq(s, 1, Len(s) - 1)) ELSE s

\* float(s) on an unsigned decimal literal: digits, digits.digits, digits., .digits
\* The value is <<"num", negative, integer part, fraction digits>>, the fraction
\* without trailing zeros, so that equal numbers are equal values.
UnsignedFloat(s, neg) ==
    LET d == DotPos(s)
        ip == IF d = 0 THEN s ELSE SubSeq(s, 1, d - 1)
        fp == IF d = 0 THEN <<>> ELSE SubSeq(s, d + 1, Len(s))
    IN IF (ip = <<>> /\ fp = <<>>) \/ ~AllDigits(ip) \/ ~AllDigits(fp)
       THEN ValueError
       ELSE <<"num", neg, DigitsValue(ip), RStripZeros(fp)>>

\* float(s) for a stripped text: decimal literals with an optional sign, inf and
\* nan in any letter case; anything else raises ValueError.
PyFloat(s) ==
    LET neg  == s # <<>> /\ Head(s) = "-"
        body == IF neg THEN Tail(s) ELSE s
        up   == StrUpper(body)
    IN IF up = <<"I", "N", "F">> THEN <<"inf", neg>>
       ELSE IF up = <<"N", "A", "N">> THEN <<"nan">>
       ELSE UnsignedFloat(body, neg)

\* _float_or_none(s)
FloatOrNone(s) ==
    IF Falsy(s) THEN None
    ELSE LET v == PyFloat(s) IN IF IsRaise(v) THEN None ELSE v

\* int(x) of a float: truncation toward zero; OverflowError for an infinity,
\* ValueError for a nan.
PyInt(v) ==
    IF v[1] = "inf" THEN OverflowError
    ELSE IF v[1] = "nan" THEN ValueError
    ELSE <<"int", (IF v[2] THEN -1 ELSE 1) * v[3]>>

\* _int_or_none(s): int(float(s)); catches ValueError and TypeError only, so the
\* OverflowError of an infinity propagates to the caller.
IntOrNone(s) ==
    IF Falsy(s) THEN None
    ELSE LET f == PyFloat(s)
         IN IF IsRaise(f) THEN None
            ELSE LET n == PyInt(f) IN IF n = ValueError THEN None ELSE n

\* n written with exactly `width` digits, zero padded.
RECURSIVE Padded(_, _)
Padded(n, width) ==
    IF width = 0 THEN <<>> ELSE Padded(n \div 10, width - 1) \o <<DigitChar(n % 10)>>

\* The magnitude of a finite float rounded to `keep` decimals, ties to even, in
\* units of 10^-keep.
RoundMag(v, keep) ==
    LET fp   == v[4]
        kept == [i \in 1..keep |-> IF i <= Len(fp) THEN fp[i] ELSE "0"]
        rest == IF Len(fp) > keep THEN SubSeq(fp, keep + 1, Len(fp)) ELSE <<>>
        q    == v[3] * Pow10(keep) + DigitsValue(kept)
        d    == IF rest = <<>> THEN 0 ELSE Ascii[rest[1]] - 48
        up   == d > 5 \/ (d = 5 /\ (Len(rest) > 1 \/ q % 2 = 1))
    IN IF up THEN q + 1 ELSE q

\* round(v, 3) of a float.
Round3(v) ==
    IF v[1] = "num"
    THEN LET q == RoundMag(v, 3)
         IN <<"num", v[2], q \div 1000, RStripZeros(Padded(q % 1000, 3))>>
    ELSE v

\* The decimal digits of a natural number.
RECURSIVE NatText(_)
NatText(n) ==
    IF n < 10 THEN <<DigitChar(n)>> ELSE NatText(n \div 10) \o <<DigitChar(n % 10)>>

\* f"{v:.6f}"
Format6(v) ==
    IF v[1] = "inf" THEN (IF v[2] THEN <<"-">> ELSE <<>>) \o <<"i", "n", "f">>
    ELSE IF v[1] = "nan" THEN <<"n", "a", "n">>
    ELSE LET q == RoundMag(v, 6)
         IN (IF v[2] THEN <<"-">> ELSE <<>>)
              \o NatText(q \div Pow10(6)) \o <<".">> \o Padded(q % Pow10(6), 6)

(***************************************************************************)
(* hashlib.sha1(...).hexdigest()                                           *)
(***************************************************************************)

\* Length of the hexadecimal digest of SHA-1 (160 bits).
Sha1HexLen == 40

HexDigits ==
    <<"0", "1", "2", "3", "4", "5", "6", "7", "8", "9", "a", "b", "c", "d", "e", "f">>

\* The bytes of a text as hexadecimal nibbles, two per character.
Nibbles(s) ==
    [k \in 1..(2 * Len(s)) |->
        IF k % 2 = 1 THEN Ascii[s[(k + 1) \div 2]] \div 16 ELSE Ascii[s[k \div 2]] % 16]

\* The nibbles compressed to one block of `width`: block j (from 0) is added into
\* the block with the odd weight 2j+1, modulo 16.
RECURSIVE Compress(_, _, _)
Compress(n, j, width) ==
    IF Len(n) <= width
    THEN [k \in 1..width |-> IF k <= Len(n) THEN ((2 * j + 1) * n[k]) % 16 ELSE 0]
    ELSE LET rest == Compress(SubSeq(n, width + 1, Len(n)), j + 1, width)
         IN [k \in 1..width |-> ((2 * j + 1) * n[k] + rest[k]) % 16]

\* SHA-1 is modelled as a fixed function from texts to digests of Sha1HexLen
\* lower-case hexadecimal digits that is injective on texts of up to
\* Sha1HexLen / 2 characters (the digest of a short text is its bytes in
\* hexadecimal, zero padded); longer texts are folded block-wise.
Sha1Hex(s) ==
    LET block == Compress(Nibbles(s), 0, Sha1HexLen)
    IN [k \in 1..Sha1HexLen |-> HexDigits[block[k] + 1]]

\* sep.join(parts)
RECURSIVE Join(_, _)
Join(sep, parts) ==
    IF parts = <<>> THEN <<>>
    ELSE IF Len(parts) = 1 THEN parts[1]
    ELSE parts[1] \o sep \o Join(sep, Tail(parts))

(***************************************************************************)
(* dict: a Python dict is the sequence of its <<key, value>> items in      *)
(* insertion order; assigning to an existing key keeps the key's position. *)
(***************************************************************************)

DictHas(d, k) == \E i \in 1..Len(d) : d[i][1] = k

DictIndex(d, k) == CHOOSE i \in 1..Len(d) : d[i][1] = k

DictGet(d, k) == d[DictIndex(d, k)][2]

\* d[k] = v
DictSet(d, k, v) ==
    IF DictHas(d, k) THEN [d EXCEPT ![DictIndex(d, k)] = <<k, v>>]
    ELSE Append(d, <<k, v>>)

\* list(d.keys())
DictKeys(d) == [i \in 1..Len(d) |-> d[i][1]]

\* sorted(keys) for str keys: a stable insertion sort by StrLess.
RECURSIVE InsertStr(_, _)
InsertStr(sorted, k) ==
    IF sorted = <<>> THEN <<k>>
    ELSE IF StrLess(k, Head(sorted)) THEN <<k>> \o sorted
    ELSE <<Head(sorted)>> \o InsertStr(Tail(sorted), k)

RECURSIVE SortedStr(_)
SortedStr(keys) ==
    IF keys = <<>> THEN <<>>
    ELSE InsertStr(SortedStr(SubSeq(keys, 1, Len(keys) - 1)), keys[Len(keys)])

\* sorted(keys) for keys that are tuples of str.
RECURSIVE InsertTuple(_, _)
InsertTuple(sorted, k) ==
    IF sorted = <<>> THEN <<k>>
    ELSE IF TupleLess(k, Head(sorted)) THEN <<k>> \o sorted
    ELSE <<Head(sorted)>> \o InsertTuple(Tail(sorted), k)

RECURSIVE SortedTuple(_)
SortedTuple(keys) ==
    IF keys = <<>> THEN <<>>
    ELSE InsertTuple(SortedTuple(SubSeq(keys, 1, Len(keys) - 1)), keys[Len(keys)])

\* [d[k] for k in sorted(d.keys())]
SortedValuesStr(d) ==
    LET ks == SortedStr(DictKeys(d)) IN [i \in 1..Len(ks) |-> DictGet(d, ks[i])]

SortedValuesTuple(d) ==
    LET ks == SortedTuple(DictKeys(d)) IN [i \in 1..Len(ks) |-> DictGet(d, ks[i])]

\* stats[name] += 1
Inc(st, name) == [st EXCEPT ![name] = @ + 1]

\* sorted(seq, key=...): the stable sort of seq, Less comparing the keys of two
\* elements. An element comes after those of smaller key and after the earlier
\* elements of equal key.
StableSort(seq, Less(_, _)) ==
    LET n == Len(seq)
        rank(i) == 1 + Cardinality({j \in 1..n :
                           Less(seq[j], seq[i]) \/ (j < i /\ ~Less(seq[i], seq[j]))})
    IN [r \in 1..n |-> seq[CHOOSE i \in 1..n : rank(i) = r]]

\* Python truthiness of an optional float: None, 0.0 and -0.0 are false.
FloatFalsy(v) == v = None \/ (v[1] = "num" /\ v[3] = 0 /\ v[4] = <<>>)

\* _float_or_none(s) or _int_or_none(s)
FloatOrInt(s) == IF FloatFalsy(FloatOrNone(s)) THEN IntOrNone(s) ELSE FloatOrNone(s)

(***************************************************************************)
(* State                                                                   *)
(***************************************************************************)

VARIABLES
    builder,    \* the dataset whose build function runs
    pc,         \* "primary": reading the primary source; "done": the build function
                \* has returned; "crashed": an exception left the build function;
                \* "rerun", "compared": validate_deterministic_synthetic's second run
    file,       \* the rows of the primary source read so far, in file order
    by_id,      \* the dict of entities (by_id, runways, airways, ils_by_key, procs)
    seen_ids,   \* build_comms: seen_ids
    out_list,   \* the list the build function returns
    stats,      \* the diagnostic counters of the run
    ids1,       \* validate_deterministic_synthetic: the outlet ids of the first run
    pos,        \* validate_deterministic_synthetic: rows read by the second run
    child_file, \* the rows of the secondary sources read so far, as <<source, row>>
    header,     \* build_airports: the fieldnames of APT_BASE.csv
    doc,        \* the output document on disk: OldDoc until main() writes it
    err,        \* the error main() or resolve() reports, None when none
    other_list  \* main() of build_procedures: the list the build function of the
                \* other dataset returned, None until main() has called it

vars ==
    <<builder, pc, file, by_id, seen_ids, out_list, stats, ids1, pos, child_file, header,
      doc, err, other_list>>

\* Most rows a primary source holds.
MaxRows == 3

Builders ==
    {"airports", "navaids", "fixes", "runways", "airways", "ils", "departures",
     "arrivals", "comms", "frequencies"}

\* The secondary sources, in the order each build function reads them after its
\* primary source (rank 0).
SourceRank ==
    [primary |-> 0, dme |-> 1, gs |-> 2, mkr |-> 3, ends |-> 1, segs |-> 1, rte |-> 1,
     apt |-> 2, rwy |-> 1, freq |-> 2]

\* The positions of a build function inside its row loops.
ReadingStages == DOMAIN SourceRank

\* The run may read one more row from source src: no later source has been
\* opened, and the sources hold MaxRows rows together.
CanRead(src) ==
    /\ pc \in ReadingStages
    /\ SourceRank[pc] <= SourceRank[src]
    /\ Len(file) + Len(child_file) < MaxRows

\* round(v, 3) if v is not None else None
Round3OrNone(v) == IF v = None THEN None ELSE Round3(v)

(***************************************************************************)
(* build_comms.py                                                          *)
(***************************************************************************)

SYNTHETIC_KEY_FIELDS ==
    <<"COMM_TYPE", "COMM_OUTLET_NAME", "FACILITY_ID", "NAV_ID", "NAV_TYPE", "CITY",
      "STATE_CODE", "REGION_CODE", "COUNTRY_CODE", "LAT_DECIMAL", "LONG_DECIMAL">>

\* _canonical_value(row, key)
CanonicalValue(row, key) ==
    LET v == Strip(row, key) IN IF Falsy(v) THEN <<>> ELSE StrUpper(v)

\* One part of the canonical key of _build_synthetic_id.
SyntheticPart(row, key) ==
    IF key \in {"LAT_DECIMAL", "LONG_DECIMAL"}
    THEN LET v == FloatOrNone(Strip(row, key))
         IN IF v # None THEN Format6(v) ELSE <<>>
    ELSE CanonicalValue(row, key)

SynPrefix == <<"S", "Y", "N", ":">>

\* A digest of 64 hexadecimal digits, as hashlib.sha256 would give.
SyntheticDigest64(canonical) ==
    Sha1Hex(canonical) \o SubSeq(Sha1Hex(canonical), 1, 64 - Sha1HexLen)

\* The digest _build_synthetic_id puts after the prefix.
SyntheticDigest(canonical) == Sha1Hex(canonical)

\* _build_synthetic_id(row) over the key fields `fields`.
SyntheticIdOver(row, fields) ==
    LET parts     == [i \in 1..Len(fields) |-> SyntheticPart(row, fields[i])]
        canonical == Join(<<"|">>, parts)
    IN SynPrefix \o SyntheticDigest(canonical)

\* _build_synthetic_id with EFF_DATE among the key fields.
BuildSyntheticIdWithDate(row) ==
    SyntheticIdOver(row, Append(SYNTHETIC_KEY_FIELDS, "EFF_DATE"))

\* _build_synthetic_id(row)
BuildSyntheticId(row) == SyntheticIdOver(row, SYNTHETIC_KEY_FIELDS)

\* The outlet code of a row: COMM_LOC_ID, else COM_OUTLET_ID, else None.
NaturalOutletId(row) == Or(Strip(row, "COMM_LOC_ID"), Strip(row, "COM_OUTLET_ID"))

\* The outlet_id build_comms gives a row.
OutletId(row) ==
    IF Falsy(NaturalOutletId(row)) THEN BuildSyntheticId(row) ELSE NaturalOutletId(row)

CommsRecord(row, outlet_id) ==
    [outlet_id |-> outlet_id,
     name      |-> Strip(row, "COMM_OUTLET_NAME"),
     type      |-> Or(Strip(row, "COMM_OUTLET_TYPE"), Strip(row, "COMM_TYPE")),
     state     |-> Strip(row, "STATE_CODE"),
     country   |-> Strip(row, "COUNTRY_CODE"),
     latitude  |-> Round3OrNone(FloatOrNone(Strip(row, "LAT_DECIMAL"))),
     longitude |-> Round3OrNone(FloatOrNone(Strip(row, "LONG_DECIMAL"))),
     artcc_id  |-> Or(Strip(row, "ARTCC_ID"), Strip(row, "FACILITY_ID"))]

CommsStats ==
    [totalRowsRead |-> 0, totalWritten |-> 0, writtenWithCommLocId |-> 0,
     writtenWithSyntheticId |-> 0, skippedParseErrors |-> 0, skippedDuplicateId |-> 0]

\* build_comms without the seen_ids test: every row is written.
CommsStepNoSeen(out, seen, st, row) ==
    LET st1       == Inc(st, "totalRowsRead")
        synthetic == Falsy(NaturalOutletId(row))
        outlet_id == OutletId(row)
    IN [out  |-> Append(out, CommsRecord(row, outlet_id)),
        seen |-> seen \cup {outlet_id},
        st   |-> Inc(Inc(st1, IF synthetic THEN "writtenWithSyntheticId"
                                           ELSE "writtenWithCommLocId"),
                     "totalWritten")]

\* One iteration of the row loop of build_comms. No operation of the body raises
\* on CSV text, so the except branch is never taken.
CommsStep(out, seen, st, row) ==
    LET st1       == Inc(st, "totalRowsRead")
        synthetic == Falsy(NaturalOutletId(row))
        outlet_id == OutletId(row)
    IN IF outlet_id \in seen
       THEN [out |-> out, seen |-> seen, st |-> Inc(st1, "skippedDuplicateId")]
       ELSE [out  |-> Append(out, CommsRecord(row, outlet_id)),
             seen |-> seen \cup {outlet_id},
             st   |-> Inc(Inc(st1, IF synthetic THEN "writtenWithSyntheticId"
                                                ELSE "writtenWithCommLocId"),
                          "totalWritten")]

CommsRow(loc, outlet, type, name, lat, eff) ==
    [COMM_LOC_ID |-> loc, COM_OUTLET_ID |-> outlet, COMM_TYPE |-> type,
     COMM_OUTLET_NAME |-> name, LAT_DECIMAL |-> lat, LONG_DECIMAL |-> <<"-", "2">>,
     EFF_DATE |-> eff]

\* A row without an outlet code.
CommsSynRow1 == CommsRow(<<>>, <<" ">>, <<"t", "w">>, <<"p">>, <<"1", ".", "5">>, <<"1">>)

\* The rows a COM.csv of the model is made of.
CommsRows ==
    { CommsRow(<<"B">>, <<>>, <<"t">>, <<"p">>, <<"1", ".", "5">>, <<"1">>),
      CommsRow(<<" ", "B", " ">>, <<>>, <<"t">>, <<"q">>, <<"2", ".", "5">>, <<"1">>),
      CommsRow(<<"A">>, <<>>, <<"t">>, <<"p">>, <<"1", ".", "5">>, <<"1">>),
      CommsRow(<<"b">>, <<>>, <<"t">>, <<"p">>, <<"1", ".", "5">>, <<"1">>),
      CommsRow(<<>>, <<"A">>, <<"t">>, <<"q">>, <<"1", ".", "5">>, <<"1">>),
      CommsSynRow1,
      CommsRow(<<" ">>, <<>>, <<"T", "W", " ">>, <<" ", "P">>, <<"1", ".", "5", "0">>, <<"2">>),
      CommsRow(<<>>, <<>>, <<"t", "w">>, <<"q">>, <<"x">>, <<"1">>),
      CommsRow(BuildSyntheticId(CommsSynRow1), <<>>, <<"t">>, <<"q">>, <<"2", ".", "5">>, <<"1">>) }

\* for row in reader: ... (build_comms)
BuildCommsRow ==
    /\ builder = "comms" /\ pc = "primary" /\ Len(file) < MaxRows
    /\ \E row \in CommsRows :
          \E r \in {CommsStep(out_list, seen_ids, stats, row)} :
             /\ out_list' = r.out
             /\ seen_ids' = r.seen
             /\ stats' = r.st
             /\ file' = Append(file, row)
    /\ UNCHANGED <<builder, other_list, pc, by_id, ids1, pos, child_file, header, doc,
                   err>>

\* return out_list, stats (build_comms)
BuildCommsEnd ==
    /\ builder = "comms" /\ pc = "primary"
    /\ pc' = "done"
    /\ UNCHANGED <<builder, other_list, file, by_id, seen_ids, out_list, stats, ids1, pos,
                   child_file, header, doc, err>>

(***************************************************************************)
(* validate_comms_ids.py                                                   *)
(***************************************************************************)

OutletIds(out) == [i \in 1..Len(out) |-> out[i].outlet_id]

\* validate_deterministic_synthetic: out1 is kept and build_comms is called again
\* on the same file.
ValidateSecondRun ==
    /\ builder = "comms" /\ pc = "done"
    /\ ids1' = OutletIds(out_list)
    /\ out_list' = <<>>
    /\ seen_ids' = {}
    /\ stats' = CommsStats
    /\ pos' = 0
    /\ pc' = "rerun"
    /\ UNCHANGED <<builder, other_list, file, by_id, child_file, header, doc, err>>

ValidateRerunRow ==
    /\ builder = "comms" /\ pc = "rerun" /\ pos < Len(file)
    /\ \E r \in {CommsStep(out_list, seen_ids, stats, file[pos + 1])} :
          /\ out_list' = r.out
          /\ seen_ids' = r.seen
          /\ stats' = r.st
    /\ pos' = pos + 1
    /\ UNCHANGED <<builder, other_list, pc, file, by_id, ids1, child_file, header, doc,
                   err>>

ValidateCompare ==
    /\ builder = "comms" /\ pc = "rerun" /\ pos = Len(file)
    /\ pc' = "compared"
    /\ UNCHANGED <<builder, other_list, file, by_id, seen_ids, out_list, stats, ids1, pos,
                   child_file, header, doc, err>>

(***************************************************************************)
(* build_frequencies.py                                                    *)
(***************************************************************************)

FrequenciesStats ==
    [totalRowsRead |-> 0, totalWritten |-> 0, skippedMissingFreq |-> 0,
     skippedMissingFacility |-> 0]

FrequencyRecord(row, facility_id, freq) ==
    [facility_id   |-> facility_id,
     facility_type |-> Strip(row, "FACILITY_TYPE"),
     freq_type     |-> Or(Strip(row, "FREQ_TYPE"), Strip(row, "FREQ_USE")),
     frequency     |-> freq,
     units         |-> Strip(row, "FREQ_UNITS"),
     service       |-> Or(Strip(row, "SERVICE"), Strip(row, "FREQ_USE")),
     callsign      |-> Or(Strip(row, "CALL_SIGN"),
                          Or(Strip(row, "TOWER_OR_COMM_CALL"),
                             Strip(row, "PRIMARY_APPROACH_RADIO_CALL"))),
     sector_name   |-> Or(Strip(row, "SECTOR_NAME"), Strip(row, "SECTORIZATION")),
     comm_location |-> Or(Strip(row, "COMM_LOCATION"), Strip(row, "SERVICED_FACILITY")),
     remarks       |-> Or(Strip(row, "REMARKS"), Strip(row, "REMARK"))]

\* One iteration of the row loop of build_frequencies.
FrequenciesStep(out, st, row) ==
    LET st1         == Inc(st, "totalRowsRead")
        facility_id == Or(Strip(row, "FACILITY"), Strip(row, "FACILITY_ID"))
        freq        == Strip(row, "FREQ")
    IN IF Falsy(facility_id)
       THEN [out |-> out, st |-> Inc(st1, "skippedMissingFacility")]
       ELSE IF Falsy(freq)
       THEN [out |-> out, st |-> Inc(st1, "skippedMissingFreq")]
       ELSE [out |-> Append(out, FrequencyRecord(row, facility_id, freq)),
             st  |-> Inc(st1, "totalWritten")]

FrequencyRow(facility, facility_id, freq) ==
    [FACILITY |-> facility, FACILITY_ID |-> facility_id, FREQ |-> freq]

FrequencyRows ==
    { FrequencyRow(<<"A", "B">>, <<>>, <<"1">>),
      FrequencyRow(<<" ">>, <<"A", "A">>, <<"2">>),
      FrequencyRow(<<" ">>, <<>>, <<"1">>),
      FrequencyRow(<<"A", "B">>, <<>>, <<" ">>) }

BuildFrequenciesRow ==
    /\ builder = "frequencies" /\ pc = "primary" /\ Len(file) < MaxRows
    /\ \E row \in FrequencyRows :
          \E r \in {FrequenciesStep(out_list, stats, row)} :
             /\ out_list' = r.out
             /\ stats' = r.st
             /\ file' = Append(file, row)
    /\ UNCHANGED <<builder, other_list, pc, by_id, seen_ids, ids1, pos, child_file,
                   header, doc, err>>

BuildFrequenciesEnd ==
    /\ builder = "frequencies" /\ pc = "primary"
    /\ pc' = "done"
    /\ UNCHANGED <<builder, other_list, file, by_id, seen_ids, out_list, stats, ids1, pos,
                   child_file, header, doc, err>>

(***************************************************************************)
(* build_navaids.py                                                        *)
(***************************************************************************)

\* normalize_id(s) of build_navaids and build_fixes
NormalizeId(s) ==
    IF Falsy(s) THEN None
    ELSE LET t == StrUpper(StrStrip(s)) IN IF t = <<>> THEN None ELSE t

NavaidsStats ==
    [totalRowsRead |-> 0, totalWritten |-> 0, skippedMissingIdent |-> 0,
     skippedMissingLatLon |-> 0, skippedParseErrors |-> 0]

\* The tacan dict of a navaid: {} unless one of the three cells is present.
NavaidTacan(row) ==
    LET tacan_id   == Strip(row, "TACAN_ID")
        tacan_chan == Strip(row, "TACAN_CHAN")
        tacan_call == Strip(row, "TACAN_CALL")
    IN IF tacan_id # None \/ tacan_chan # None \/ tacan_call # None
       THEN [id |-> tacan_id, channel |-> tacan_chan, call |-> tacan_call]
       ELSE <<>>

NavaidRecord(row, ident, lat, lon, elevation_ft) ==
    LET name == Or(Strip(row, "NAV_NAME"), Or(Strip(row, "NAME"), <<>>))
    IN [identifier  |-> ident,
        type        |-> StrUpper(Or(Strip(row, "NAV_TYPE"), <<>>)),
        name        |-> StrUpper(name),
        state       |-> Strip(row, "STATE_CODE"),
        country     |-> Strip(row, "COUNTRY_CODE"),
        icao_region |-> Strip(row, "ICAO_REGION_CODE"),
        latitude    |-> Round3(lat),
        longitude   |-> Round3(lon),
        elevation_ft |-> elevation_ft,
        frequency_khz_or_mhz |-> Strip(row, "FREQ"),
        channel     |-> Strip(row, "CHANNEL"),
        status      |-> Strip(row, "STATUS_CODE"),
        tacan       |-> NavaidTacan(row),
        flags       |-> [hiwas |-> Strip(row, "HIWAS"), voice |-> Strip(row, "VOICE"),
                         tweb |-> Strip(row, "TWEB"),
                         fanmarker |-> Strip(row, "FANMARKER"),
                         lahso |-> Strip(row, "LAHSO"),
                         public_use |-> Strip(row, "PUBLIC_USE")]]

\* build_navaids without the `if ident in by_id: continue` test: a later row of an
\* identifier replaces the entity.
NavaidsStepOverwrite(d, st, row) ==
    LET st1       == Inc(st, "totalRowsRead")
        ident_raw == Strip(row, "NAV_ID")
        ident     == NormalizeId(ident_raw)
        lat_str   == Strip(row, "LAT_DECIMAL")
        lon_str   == Strip(row, "LONG_DECIMAL")
        lat       == FloatOrNone(lat_str)
        lon       == FloatOrNone(lon_str)
        elev_raw  == Strip(row, "ELEV")
        elevation_ft == IF Falsy(elev_raw) THEN None ELSE IntOrNone(elev_raw)
    IN IF Falsy(ident_raw) \/ Falsy(ident)
       THEN [d |-> d, st |-> Inc(st1, "skippedMissingIdent")]
       ELSE IF Falsy(lat_str) \/ Falsy(lon_str)
       THEN [d |-> d, st |-> Inc(st1, "skippedMissingLatLon")]
       ELSE IF lat = None \/ lon = None \/ IsRaise(elevation_ft)
       THEN [d |-> d, st |-> Inc(st1, "skippedParseErrors")]
       ELSE [d  |-> DictSet(d, ident, NavaidRecord(row, ident, lat, lon, elevation_ft)),
             st |-> Inc(st1, "totalWritten")]

\* One iteration of the row loop of build_navaids; an exception of the body is
\* caught and counted as a parse error.
NavaidsStep(d, st, row) ==
    LET st1       == Inc(st, "totalRowsRead")
        ident_raw == Strip(row, "NAV_ID")
        ident     == NormalizeId(ident_raw)
        lat_str   == Strip(row, "LAT_DECIMAL")
        lon_str   == Strip(row, "LONG_DECIMAL")
        lat       == FloatOrNone(lat_str)
        lon       == FloatOrNone(lon_str)
        elev_raw  == Strip(row, "ELEV")
        elevation_ft == IF Falsy(elev_raw) THEN None ELSE IntOrNone(elev_raw)
    IN IF Falsy(ident_raw) THEN [d |-> d, st |-> Inc(st1, "skippedMissingIdent")]
       ELSE IF Falsy(ident) THEN [d |-> d, st |-> Inc(st1, "skippedMissingIdent")]
       ELSE IF DictHas(d, ident) THEN [d |-> d, st |-> st1]
       ELSE IF Falsy(lat_str) \/ Falsy(lon_str)
       THEN [d |-> d, st |-> Inc(st1, "skippedMissingLatLon")]
       ELSE IF lat = None \/ lon = None
       THEN [d |-> d, st |-> Inc(st1, "skippedParseErrors")]
       ELSE IF IsRaise(elevation_ft)
       THEN [d |-> d, st |-> Inc(st1, "skippedParseErrors")]
       ELSE [d  |-> DictSet(d, ident, NavaidRecord(row, ident, lat, lon, elevation_ft)),
             st |-> Inc(st1, "totalWritten")]

NavaidRow(id, type, lat, lon, elev) ==
    [NAV_ID |-> id, NAV_TYPE |-> type, LAT_DECIMAL |-> lat, LONG_DECIMAL |-> lon,
     ELEV |-> elev]

NavaidRows ==
    { NavaidRow(<<"a", "b">>, <<"p">>, <<"1", ".", "5">>, <<"-", "2">>, <<"9">>),
      NavaidRow(<<" ", "A", "B">>, <<"q">>, <<"2", ".", "5">>, <<"-", "2">>, <<>>),
      NavaidRow(<<"A", "A">>, <<"p">>, <<"1", ".", "5">>, <<"-", "2">>, <<"x">>),
      NavaidRow(<<" ">>, <<"p">>, <<"1", ".", "5">>, <<"-", "2">>, <<>>),
      NavaidRow(<<"A", "B">>, <<"p">>, <<>>, <<"-", "2">>, <<>>),
      NavaidRow(<<"A", "B">>, <<"p">>, <<"x">>, <<"-", "2">>, <<>>),
      NavaidRow(<<"A", "A">>, <<"q">>, <<"1", ".", "5">>, <<"-", "2">>, <<"i", "n", "f">>) }

BuildNavaidsRow ==
    /\ builder = "navaids" /\ pc = "primary" /\ Len(file) < MaxRows
    /\ \E row \in NavaidRows :
          \E r \in {NavaidsStep(by_id, stats, row)} :
             /\ by_id' = r.d
             /\ stats' = r.st
             /\ file' = Append(file, row)
    /\ UNCHANGED <<builder, other_list, pc, seen_ids, out_list, ids1, pos, child_file,
                   header, doc, err>>

\* out_list = [by_id[k] for k in sorted(by_id.keys())]; return (build_navaids)
BuildNavaidsEnd ==
    /\ builder = "navaids" /\ pc = "primary"
    /\ out_list' = SortedValuesStr(by_id)
    /\ pc' = "done"
    /\ UNCHANGED <<builder, other_list, file, by_id, seen_ids, stats, ids1, pos,
                   child_file, header, doc, err>>

(***************************************************************************)
(* build_fixes.py                                                          *)
(***************************************************************************)

FixesStats ==
    [rows |-> 0, written |-> 0, skippedMissingIdent |-> 0, skippedMissingLatLon |-> 0,
     skippedParseErrors |-> 0]

FixRecord(ident, lat, lon) ==
    [identifier |-> ident, latitude |-> Round3(lat), longitude |-> Round3(lon)]

\* One iteration of the row loop of build_fixes.
FixesStep(d, st, row) ==
    LET st1       == Inc(st, "rows")
        ident_raw == StrStrip(Or(Get(row, "FIX_ID"), Or(Get(row, "IDENT"), <<>>)))
        ident     == NormalizeId(ident_raw)
        lat_str   == GetStrip(row, "LAT_DECIMAL")
        lon_str   == GetStrip(row, "LONG_DECIMAL")
        lat       == PyFloat(lat_str)
        lon       == PyFloat(lon_str)
    IN IF ident_raw = <<>> THEN [d |-> d, st |-> Inc(st1, "skippedMissingIdent")]
       ELSE IF Falsy(ident) THEN [d |-> d, st |-> Inc(st1, "skippedMissingIdent")]
       ELSE IF DictHas(d, ident) THEN [d |-> d, st |-> st1]
       ELSE IF lat_str = <<>> \/ lon_str = <<>>
       THEN [d |-> d, st |-> Inc(st1, "skippedMissingLatLon")]
       ELSE IF IsRaise(lat) \/ IsRaise(lon)
       THEN [d |-> d, st |-> Inc(st1, "skippedParseErrors")]
       ELSE [d  |-> DictSet(d, ident, FixRecord(ident, lat, lon)),
             st |-> Inc(st1, "written")]

FixRow(id, ident, lat, lon) ==
    [FIX_ID |-> id, IDENT |-> ident, LAT_DECIMAL |-> lat, LONG_DECIMAL |-> lon]

FixRows ==
    { FixRow(<<"a", "b">>, <<>>, <<"1", ".", "5">>, <<"-", "2">>),
      FixRow(<<" ", "A", "B">>, <<>>, <<"2", ".", "5">>, <<"-", "2">>),
      FixRow(<<>>, <<"A", "A">>, <<"1", ".", "5">>, <<"-", "2">>),
      FixRow(<<" ">>, <<"A", "A">>, <<"1", ".", "5">>, <<"-", "2">>),
      FixRow(<<"A", "B">>, <<>>, <<"1", ".", "5">>, <<" ">>),
      FixRow(<<"A", "B">>, <<>>, <<"x">>, <<"-", "2">>),
      FixRow(<<"B">>, <<>>, <<"1", ".", "2", "3", "4", "5">>, <<"-", "2">>) }

BuildFixesRow ==
    /\ builder = "fixes" /\ pc = "primary" /\ Len(file) < MaxRows
    /\ \E row \in FixRows :
          \E r \in {FixesStep(by_id, stats, row)} :
             /\ by_id' = r.d
             /\ stats' = r.st
             /\ file' = Append(file, row)
    /\ UNCHANGED <<builder, other_list, pc, seen_ids, out_list, ids1, pos, child_file,
                   header, doc, err>>

\* out_list = [by_id[k] for k in sorted(by_id.keys())]; return (build_fixes)
BuildFixesEnd ==
    /\ builder = "fixes" /\ pc = "primary"
    /\ out_list' = SortedValuesStr(by_id)
    /\ pc' = "done"
    /\ UNCHANGED <<builder, other_list, file, by_id, seen_ids, stats, ids1, pos,
                   child_file, header, doc, err>>

(***************************************************************************)
(* build_airports.py                                                       *)
(***************************************************************************)

\* str.upper() of a column name of the modelled headers.
ColumnUpper(h) ==
    CASE h = "arpt_id" -> "ARPT_ID"
      [] h = "icao_id" -> "ICAO_ID"
      [] h = "Name" -> "NAME"
      [] OTHER -> h

\* The elements of a list.
Range(seq) == {seq[i] : i \in 1..Len(seq)}

\* No column: what stands for a column name that was not found.
NoColumn == ""

\* The first element of names that satisfies Hit, NoColumn when none does.
FirstOf(names, Hit(_)) ==
    LET hits == {i \in 1..Len(names) : Hit(names[i])}
    IN IF hits = {} THEN NoColumn
       ELSE names[CHOOSE i \in hits : \A j \in hits : i <= j]

\* upper_map[u] of resolve(): the last fieldname whose upper-case form is u.
UpperMap(fieldnames, u) ==
    LET hits == {i \in 1..Len(fieldnames) : ColumnUpper(fieldnames[i]) = u}
    IN fieldnames[CHOOSE i \in hits : \A j \in hits : j <= i]

\* Resolve with the case-insensitive search before the exact one.
ResolveFoldFirst(fieldnames, names) ==
    LET exact == FirstOf(names, LAMBDA n : n \in Range(fieldnames))
        fold  == FirstOf(names, LAMBDA n :
                     \E h \in Range(fieldnames) : ColumnUpper(h) = ColumnUpper(n))
    IN IF fold # NoColumn THEN UpperMap(fieldnames, ColumnUpper(fold))
       ELSE IF exact # NoColumn THEN exact
       ELSE NoColumn

\* resolve(required, *alts) with names = <<required>> \o alts: the column found,
\* NoColumn when resolve() reports the error and exits.
Resolve(fieldnames, names) ==
    LET exact == FirstOf(names, LAMBDA n : n \in Range(fieldnames))
        fold  == FirstOf(names, LAMBDA n :
                     \E h \in Range(fieldnames) : ColumnUpper(h) = ColumnUpper(n))
    IN IF exact # NoColumn THEN exact
       ELSE IF fold # NoColumn THEN UpperMap(fieldnames, ColumnUpper(fold))
       ELSE NoColumn

\* The resolve() calls of build_airports, in their order.
RequiredColumns ==
    << <<"arpt_id", <<"ARPT_ID">> >>, <<"icao_id", <<"ICAO_ID", "ICAO">> >>,
       <<"name", <<"ARPT_NAME", "NAME">> >>, <<"city", <<"CITY">> >>,
       <<"state", <<"STATE_CODE">> >>, <<"lat", <<"LAT_DECIMAL">> >>,
       <<"lon", <<"LONG_DECIMAL">> >>, <<"elev", <<"ELEV">> >> >>

\* FirstUnresolved for a resolve() that returns without a column instead of
\* exiting.
FirstUnresolvedNever(fieldnames) == 0

\* The index of the first resolve() call that fails on the header, 0 when all
\* columns are found.
FirstUnresolved(fieldnames) ==
    LET bad == {i \in 1..Len(RequiredColumns) :
                   Resolve(fieldnames, RequiredColumns[i][2]) = NoColumn}
    IN IF bad = {} THEN 0 ELSE CHOOSE i \in bad : \A j \in bad : i <= j

\* col_arpt_id, col_icao_id, ...: the columns resolve() finds in the header.
AirportCols ==
    LET col(i) == Resolve(header, RequiredColumns[i][2])
    IN [arpt_id |-> col(1), icao_id |-> col(2), name |-> col(3), city |-> col(4),
        state |-> col(5), lat |-> col(6), lon |-> col(7), elev |-> col(8)]

\* The headers an APT_BASE.csv of the model has: the canonical one, one with
\* alternate and differently cased names (ICAO beside a lower-case icao_id), one
\* without the ICAO_ID column and one
\* without the LAT_DECIMAL column.
AirportHeaders ==
    { <<"ARPT_ID", "ICAO_ID", "ARPT_NAME", "CITY", "STATE_CODE", "LAT_DECIMAL",
        "LONG_DECIMAL", "ELEV", "TYPE">>,
      <<"arpt_id", "icao_id", "ICAO", "Name", "CITY", "STATE_CODE", "LAT_DECIMAL",
        "LONG_DECIMAL", "ELEV", "TYPE">>,
      <<"ARPT_ID", "ARPT_NAME", "CITY", "STATE_CODE", "LAT_DECIMAL",
        "LONG_DECIMAL", "ELEV", "TYPE">>,
      <<"ARPT_ID", "ICAO_ID", "ARPT_NAME", "CITY", "STATE_CODE",
        "LONG_DECIMAL", "ELEV", "TYPE">> }

\* The canonical column whose cells a column of the modelled headers holds.
CanonicalOf(h) ==
    CASE h = "arpt_id" -> "ARPT_ID"
      [] h = "icao_id" -> "ICAO_ID"
      [] h = "ICAO" -> "ICAO_ID"
      [] h = "Name" -> "ARPT_NAME"
      [] OTHER -> h

\* The row csv.DictReader gives under the header for the cells of `cells`.
RowUnder(fieldnames, cells) ==
    [h \in Range(fieldnames) |-> cells[CanonicalOf(h)]]

\* resolve() of every required column: the build goes on to the rows, or reports
\* the missing column with the available headers and exits.
BuildAirportsResolve ==
    /\ builder = "airports" /\ pc = "start"
    /\ LET bad == FirstUnresolved(header)
       IN IF bad = 0
          THEN pc' = "primary" /\ err' = err
          ELSE /\ pc' = "aborted"
               /\ err' = <<"required column not found", RequiredColumns[bad][2][1], header>>
    /\ UNCHANGED <<builder, other_list, file, by_id, seen_ids, out_list, stats, ids1, pos,
                   child_file, header, doc>>

AirportsStats ==
    [rows_read |-> 0, written |-> 0, skipped_missing_ident |-> 0,
     skipped_missing_latlon |-> 0, skipped_missing_name |-> 0, skipped_filtered |-> 0,
     skipped_parse_errors |-> 0, used_default_latlon |-> 0, used_default_name |-> 0,
     used_default_state |-> 0, wrote_samples |-> 0]

\* int(round(float(elev_raw))): None with a counted parse error on ValueError;
\* the OverflowError of an infinity is not caught.
AirportElev(elev_raw) ==
    LET f == PyFloat(elev_raw)
    IN IF IsRaise(f) THEN ValueError
       ELSE IF f[1] = "nan" THEN ValueError
       ELSE IF f[1] = "inf" THEN OverflowError
       ELSE <<"int", (IF f[2] THEN -1 ELSE 1) * RoundMag(f, 0)>>

AirportRecord(identifier, icao, name, city, state, lat, lon, elev) ==
    [identifier   |-> identifier,
     icao_id      |-> IF icao = <<>> THEN None ELSE icao,
     name         |-> StrUpper(name),
     city         |-> StrUpper(city),
     state        |-> StrUpper(state),
     latitude     |-> Round3(lat),
     longitude    |-> Round3(lon),
     elevation_ft |-> elev,
     runways      |-> <<>>,
     frequencies  |-> <<>>]

\* One iteration of the APT_BASE row loop of build_airports.
AirportsStepWith(cols, d, st, row) ==
    LET st1      == Inc(st, "rows_read")
        lid      == StrUpper(GetStrip(row, cols.arpt_id))
        icao     == StrUpper(GetStrip(row, cols.icao_id))
        lat_raw  == GetStrip(row, cols.lat)
        lon_raw  == GetStrip(row, cols.lon)
        lat      == PyFloat(lat_raw)
        lon      == PyFloat(lon_raw)
        name_src == GetStrip(row, cols.name)
        city     == GetStrip(row, cols.city)
        state_src == GetStrip(row, cols.state)
        elev_raw == GetStrip(row, cols.elev)
        elev_try == IF elev_raw = <<>> THEN None ELSE AirportElev(elev_raw)
        elev     == IF IsRaise(elev_try) THEN None ELSE elev_try
        st2      == IF name_src = <<>> THEN Inc(st1, "used_default_name") ELSE st1
        st3      == IF state_src = <<>> THEN Inc(st2, "used_default_state") ELSE st2
        st4      == IF elev_try = ValueError THEN Inc(st3, "skipped_parse_errors") ELSE st3
        st5      == Inc(st4, "written")
        st6      == IF st5.wrote_samples < 3 THEN Inc(st5, "wrote_samples") ELSE st5
    IN IF lid = <<>>
       THEN [d |-> d, st |-> Inc(st1, "skipped_missing_ident"), raised |-> FALSE]
       ELSE IF lat_raw = <<>> \/ lon_raw = <<>>
       THEN [d |-> d, st |-> Inc(st1, "skipped_missing_latlon"), raised |-> FALSE]
       ELSE IF IsRaise(lat) \/ IsRaise(lon)
       THEN [d |-> d, st |-> Inc(st1, "skipped_parse_errors"), raised |-> FALSE]
       ELSE IF elev_try = OverflowError
       THEN [d |-> d, st |-> st3, raised |-> TRUE]
       ELSE [d  |-> DictSet(d, lid, AirportRecord(lid, icao, name_src, city, state_src,
                                                  lat, lon, elev)),
             st |-> st6, raised |-> FALSE]

AirportsStep(d, st, row) == AirportsStepWith(AirportCols, d, st, row)

\* The cells of a row of APT_BASE.csv, by canonical column.
AirportRow(id, name, lat, lon, elev) ==
    [ARPT_ID |-> id, ICAO_ID |-> <<>>, ARPT_NAME |-> name, CITY |-> <<"c">>,
     STATE_CODE |-> <<>>, LAT_DECIMAL |-> lat, LONG_DECIMAL |-> lon, ELEV |-> elev,
     TYPE |-> <<>>]

\* A row of a private airport.
AirportPrivateRow ==
    [AirportRow(<<"K", "M", "S", "P">>, <<"m">>, <<"1", ".", "5">>, <<"-", "2">>, <<>>)
        EXCEPT !.TYPE = <<"P", "R", "I", "V", "A", "T", "E">>,
               !.ICAO_ID = <<"k", "m", "s", "p">>]

AirportRows ==
    { AirportRow(<<"k", "a", "b">>, <<"p">>, <<"1", ".", "5">>, <<"-", "2">>, <<"9", ".", "5">>),
      AirportRow(<<" ", "K", "A", "B">>, <<"q">>, <<"2", ".", "5">>, <<"-", "2">>, <<>>),
      AirportRow(<<"K", "A", "A">>, <<>>, <<"1", ".", "5">>, <<"-", "2">>, <<"x">>),
      AirportRow(<<" ">>, <<"p">>, <<"1", ".", "5">>, <<"-", "2">>, <<>>),
      AirportRow(<<"K", "A", "B">>, <<"p">>, <<>>, <<"-", "2">>, <<>>),
      AirportRow(<<"K", "A", "B">>, <<"p">>, <<"x">>, <<"-", "2">>, <<>>),
      AirportRow(<<"K", "A", "A">>, <<"q">>, <<"1", ".", "5">>, <<"-", "2">>, <<"i", "n", "f">>),
      AirportRow(<<"A", "B">>, <<"p">>, <<"1", ".", "5">>, <<"-", "2">>, <<>>),
      AirportPrivateRow }

BuildAirportsRow ==
    /\ builder = "airports" /\ pc = "primary" /\ Len(file) < MaxRows
    /\ \E cells \in AirportRows :
          \E row \in {RowUnder(header, cells)} :
          \E r \in {AirportsStep(by_id, stats, row)} :
             /\ by_id' = r.d
             /\ stats' = r.st
             /\ file' = Append(file, row)
             /\ pc' = IF r.raised THEN "crashed" ELSE pc
    /\ UNCHANGED <<builder, other_list, seen_ids, out_list, ids1, pos, child_file, header,
                   doc, err>>

\* normalize_id(s) of build_airports: the stripped upper-cased text when it
\* matches K[A-Z0-9]{2,3}.
IsUpperAlnum(c) == IsDigit(c) \/ (Ascii[c] >= 65 /\ Ascii[c] <= 90)

AirportNormalizeId(s) ==
    IF Falsy(s) THEN None
    ELSE LET t == StrUpper(StrStrip(s))
         IN IF Len(t) < 3 \/ Len(t) > 4 THEN None
            ELSE IF t[1] = "K" /\ \A i \in 2..Len(t) : IsUpperAlnum(t[i]) THEN t
            ELSE None

\* _pick(row, cols): the first non-empty stripped cell among the columns cols.
Pick(row, cols) ==
    LET hits == SelectSeq(cols, LAMBDA c : c \in DOMAIN row /\ GetStrip(row, c) # <<>>)
    IN IF hits = <<>> THEN None ELSE GetStrip(row, hits[1])

\* sub in s, for texts
Contains(s, sub) ==
    \E i \in 0..(Len(s) - Len(sub)) : SubSeq(s, i + 1, i + Len(sub)) = sub

TYPE_COLS == <<"TYPE", "FACILITY_TYPE", "SITE_TYPE", "TYPE_CODE", "Ownership">>

STATE_STATUS == <<"STATE", "STATUS", "SVC_IND">>

\* should_exclude_airport(row, fieldnames): private, heliport, seaplane base, closed.
\* build_airports never calls it.
ShouldExcludeAirport(row) ==
    LET type_val == Pick(row, TYPE_COLS)
        u        == StrUpper(type_val)
        status   == Pick(row, STATE_STATUS)
    IN \/ /\ type_val # None
          /\ \/ Contains(u, <<"H", "E", "L", "I">>) \/ u \in {<<"H">>, <<"H", "E", "L", "I", "P", "O", "R", "T">>, <<"2">>}
             \/ Contains(u, <<"S", "E", "A", "P", "L", "A", "N", "E">>) \/ Contains(u, <<"W", "A", "T", "E", "R">>)
             \/ u \in {<<"S">>, <<"S", "E", "A", "P", "L", "A", "N", "E", " ", "B", "A", "S", "E">>, <<"4">>}
             \/ Contains(u, <<"P", "R", "I", "V", "A", "T", "E">>) \/ u \in {<<"P", "R">>, <<"P">>}
       \/ status # None /\ Contains(StrUpper(status), <<"C", "L", "O", "S", "E", "D">>)

\* One iteration of the runway row loop of build_airports: a runway id the airport
\* does not list yet is appended.
AirportRunwaysStep(d, row) ==
    LET aid == AirportNormalizeId(Pick(row, <<"ARPT_ID", "IDENT", "LOCID", "SITE_NUMBER">>))
        rwy == StrUpper(StrStrip(Or(Pick(row, <<"RWY_ID", "RUNWAY_ID", "BASE_RWY", "IDENT">>),
                                    <<>>)))
    IN IF aid = None \/ ~DictHas(d, aid) THEN d
       ELSE IF rwy # <<>> /\ rwy \notin Range(DictGet(d, aid).runways)
       THEN [d EXCEPT ![DictIndex(d, aid)][2].runways = Append(@, rwy)]
       ELSE d

FREQ_TYPE_MAP ==
    << <<<<"C", "L", "D">>, "clearance">>,
       <<<<"C", "L", "R">>, "clearance">>,
       <<<<"C", "L", "E", "A", "R", "A", "N", "C", "E">>, "clearance">>,
       <<<<"G", "N", "D">>, "ground">>,
       <<<<"G", "R", "O", "U", "N", "D">>, "ground">>,
       <<<<"T", "W", "R">>, "tower">>,
       <<<<"T", "O", "W", "E", "R">>, "tower">>,
       <<<<"D", "E", "P">>, "departure">>,
       <<<<"D", "E", "P", "A", "R", "T", "U", "R", "E">>, "departure">> >>

\* FREQ_TYPE_MAP.get(t), "" standing for the None of an unmapped type.
FreqTypeGet(t) == IF DictHas(FREQ_TYPE_MAP, t) THEN DictGet(FREQ_TYPE_MAP, t) ELSE ""

\* re.match(r"^\d{3}\.\d{1,3}$", v)
IsFreqValue(v) ==
    /\ Len(v) >= 5 /\ Len(v) <= 7
    /\ \A i \in 1..3 : IsDigit(v[i])
    /\ v[4] = "."
    /\ \A i \in 5..Len(v) : IsDigit(v[i])

\* One iteration of the frequency row loop of build_airports: a value the list of
\* its mapped type does not hold yet is appended.
AirportFreqStep(d, row) ==
    LET aid      == AirportNormalizeId(Pick(row, <<"ARPT_ID", "IDENT", "LOCID", "SITE_NUMBER">>))
        raw_type == StrUpper(StrStrip(Or(Pick(row, <<"TYPE", "FREQ_TYPE", "FACILITY_TYPE">>),
                                         <<>>)))
        prefix   == SubSeq(raw_type, 1, IF Len(raw_type) < 3 THEN Len(raw_type) ELSE 3)
        key      == IF FreqTypeGet(raw_type) # "" THEN FreqTypeGet(raw_type)
                    ELSE FreqTypeGet(prefix)
        freq_val == StrStrip(Or(Pick(row, <<"FREQ", "FREQUENCY", "FREQ_VALUE">>), <<>>))
        i        == DictIndex(d, aid)
        freqs    == d[i][2].frequencies
        freqs1   == IF DictHas(freqs, key) THEN freqs ELSE DictSet(freqs, key, <<>>)
        freqs2   == IF freq_val \in Range(DictGet(freqs1, key)) THEN freqs1
                    ELSE DictSet(freqs1, key, Append(DictGet(freqs1, key), freq_val))
    IN IF aid = None \/ ~DictHas(d, aid) THEN d
       ELSE IF key = "" THEN d
       ELSE IF freq_val = <<>> \/ ~IsFreqValue(freq_val) THEN d
       ELSE [d EXCEPT ![i][2].frequencies = freqs2]

AirportRunwayRow(id, rwy) == [ARPT_ID |-> id, RWY_ID |-> rwy]

\* The rows a runway file of build_airports is made of in the model.
AirportRunwayRows ==
    { AirportRunwayRow(<<"k", "a", "b">>, <<"1", "l">>),
      AirportRunwayRow(<<"K", "A", "B">>, <<"1", "L">>),
      AirportRunwayRow(<<"K", "A", "B">>, <<"0", "9">>),
      AirportRunwayRow(<<"A", "B">>, <<"0", "9">>) }

\* for row in reader: ... of the runway file (build_airports)
BuildAirportsRunwayRow ==
    /\ builder = "airports" /\ CanRead("rwy")
    /\ \E row \in AirportRunwayRows :
          /\ by_id' = AirportRunwaysStep(by_id, row)
          /\ child_file' = Append(child_file, <<"rwy", row>>)
    /\ pc' = "rwy"
    /\ UNCHANGED <<builder, other_list, file, seen_ids, out_list, stats, ids1, pos,
                   header, doc, err>>

AirportFreqRow(id, type, freq) == [ARPT_ID |-> id, TYPE |-> type, FREQ |-> freq]

\* The rows a frequency file of build_airports is made of in the model.
AirportFreqRows ==
    { AirportFreqRow(<<"K", "A", "B">>, <<"T", "W", "R">>, <<"1", "1", "8", ".", "3">>),
      AirportFreqRow(<<"k", "a", "b">>, <<"t", "o", "w", "e", "r">>,
                     <<"1", "1", "8", ".", "3">>),
      AirportFreqRow(<<"K", "A", "B">>, <<"G", "N", "D">>, <<"x">>) }

\* for row in reader: ... of the frequency file (build_airports)
BuildAirportsFreqRow ==
    /\ builder = "airports" /\ CanRead("freq")
    /\ \E row \in AirportFreqRows :
          /\ by_id' = AirportFreqStep(by_id, row)
          /\ child_file' = Append(child_file, <<"freq", row>>)
    /\ pc' = "freq"
    /\ UNCHANGED <<builder, other_list, file, seen_ids, out_list, stats, ids1, pos,
                   header, doc, err>>

\* The closing loop over by_id.values() and the returned list of build_airports.
AirportsFinal(rec) ==
    [rec EXCEPT !.runways = SortedStr(rec.runways),
                !.frequencies = SelectSeq(rec.frequencies, LAMBDA kv : kv[2] # <<>>)]

BuildAirportsEnd ==
    /\ builder = "airports" /\ pc \in ReadingStages
    /\ LET final == [i \in 1..Len(by_id) |-> <<by_id[i][1], AirportsFinal(by_id[i][2])>>]
       IN /\ by_id' = final
          /\ out_list' = SortedValuesStr(final)
    /\ pc' = "done"
    /\ UNCHANGED <<builder, other_list, file, seen_ids, stats, ids1, pos, child_file,
                   header, doc, err>>

(***************************************************************************)
(* build_runways.py                                                        *)
(***************************************************************************)

RunwaysStats ==
    [totalRowsRead |-> 0, totalEndRowsRead |-> 0, totalWritten |-> 0,
     skippedMissingArptRwy |-> 0, skippedParseErrors |-> 0]

RunwayRecord(row, arpt, rwy_id, length_ft, width_ft) ==
    [airport_identifier |-> arpt,
     runway_id |-> rwy_id,
     length_ft |-> length_ft,
     width_ft  |-> width_ft,
     surface   |-> Strip(row, "SURFACE_TYPE_CODE"),
     lighting  |-> Strip(row, "RWY_LGT_CODE"),
     ends      |-> <<>>]

\* One iteration of the APT_RWY row loop of build_runways; the OverflowError of
\* _int_or_none leaves the function.
RunwaysStep(d, st, row) ==
    LET st1       == Inc(st, "totalRowsRead")
        arpt_raw  == Strip(row, "ARPT_ID")
        rwy_raw   == Strip(row, "RWY_ID")
        arpt      == StrUpper(arpt_raw)
        rwy_id    == StrUpper(rwy_raw)
        key       == <<arpt, rwy_id>>
        length_ft == IntOrNone(Strip(row, "RWY_LEN"))
        width_ft  == IntOrNone(Strip(row, "RWY_WIDTH"))
    IN IF Falsy(arpt_raw) \/ Falsy(rwy_raw)
       THEN [d |-> d, st |-> Inc(st1, "skippedMissingArptRwy"), raised |-> FALSE]
       ELSE IF DictHas(d, key) THEN [d |-> d, st |-> st1, raised |-> FALSE]
       ELSE IF IsRaise(length_ft) \/ IsRaise(width_ft)
       THEN [d |-> d, st |-> st1, raised |-> TRUE]
       ELSE [d  |-> DictSet(d, key, RunwayRecord(row, arpt, rwy_id, length_ft, width_ft)),
             st |-> Inc(st1, "totalWritten"), raised |-> FALSE]

RunwayRow(arpt, rwy, len) == [ARPT_ID |-> arpt, RWY_ID |-> rwy, RWY_LEN |-> len]

RunwayRows ==
    { RunwayRow(<<"k", "a", "b">>, <<"1", "l">>, <<"5">>),
      RunwayRow(<<"K", "A", "B", " ">>, <<"1", "L">>, <<"6">>),
      RunwayRow(<<"K", "A", "B">>, <<"0">>, <<"x">>),
      RunwayRow(<<"K", "A", "A">>, <<"1", "L">>, <<>>),
      RunwayRow(<<" ">>, <<"1", "L">>, <<"5">>),
      RunwayRow(<<"K", "A", "B">>, <<>>, <<"5">>),
      RunwayRow(<<"K", "A", "A">>, <<"0">>, <<"i", "n", "f">>) }

BuildRunwaysRow ==
    /\ builder = "runways" /\ pc = "primary" /\ Len(file) < MaxRows
    /\ \E row \in RunwayRows :
          \E r \in {RunwaysStep(by_id, stats, row)} :
             /\ by_id' = r.d
             /\ stats' = r.st
             /\ file' = Append(file, row)
             /\ pc' = IF r.raised THEN "crashed" ELSE pc
    /\ UNCHANGED <<builder, other_list, seen_ids, out_list, ids1, pos, child_file, header,
                   doc, err>>

RunwayEnd(row, end_id) ==
    [end_id         |-> Or(end_id, <<>>),
     latitude       |-> Round3OrNone(FloatOrNone(Strip(row, "LAT_DECIMAL"))),
     longitude      |-> Round3OrNone(FloatOrNone(Strip(row, "LONG_DECIMAL"))),
     elevation_ft   |-> FloatOrInt(Strip(row, "RWY_END_ELEV")),
     true_alignment |-> Strip(row, "TRUE_ALIGNMENT"),
     ils_type       |-> Strip(row, "ILS_TYPE"),
     displaced_threshold_ft |-> IntOrNone(Strip(row, "DISPLACED_THR_LEN")),
     tdz_elev_ft    |-> FloatOrInt(Strip(row, "TDZ_ELEV"))]

\* RunwayEndsStep where an end whose key is the key of no runway creates the
\* runway.
RunwayEndsStepUpsert(d, st, row) ==
    LET st1    == Inc(st, "totalEndRowsRead")
        arpt   == Strip(row, "ARPT_ID")
        rwy_id == Strip(row, "RWY_ID")
        end_id == Strip(row, "RWY_END_ID")
        key    == <<StrUpper(arpt), StrUpper(rwy_id)>>
        end    == RunwayEnd(row, end_id)
    IN IF Falsy(arpt) \/ Falsy(rwy_id) THEN [d |-> d, st |-> st1, raised |-> FALSE]
       ELSE IF IsRaise(end.displaced_threshold_ft)
       THEN [d |-> d, st |-> st1, raised |-> TRUE]
       ELSE IF ~DictHas(d, key)
       THEN [d |-> DictSet(d, key, [ends |-> <<end>>]), st |-> st1, raised |-> FALSE]
       ELSE [d  |-> [d EXCEPT ![DictIndex(d, key)][2].ends = Append(@, end)],
             st |-> st1, raised |-> FALSE]

\* One iteration of the APT_RWY_END row loop of build_runways: the end is appended
\* to the runway of its (airport, runway id) key; the OverflowError of
\* _int_or_none leaves the function.
RunwayEndsStep(d, st, row) ==
    LET st1    == Inc(st, "totalEndRowsRead")
        arpt   == Strip(row, "ARPT_ID")
        rwy_id == Strip(row, "RWY_ID")
        end_id == Strip(row, "RWY_END_ID")
        key    == <<StrUpper(arpt), StrUpper(rwy_id)>>
        end    == RunwayEnd(row, end_id)
    IN IF Falsy(arpt) \/ Falsy(rwy_id) THEN [d |-> d, st |-> st1, raised |-> FALSE]
       ELSE IF ~DictHas(d, key) THEN [d |-> d, st |-> st1, raised |-> FALSE]
       ELSE IF IsRaise(end.displaced_threshold_ft)
       THEN [d |-> d, st |-> st1, raised |-> TRUE]
       ELSE [d  |-> [d EXCEPT ![DictIndex(d, key)][2].ends = Append(@, end)],
             st |-> st1, raised |-> FALSE]

RunwayEndRow(arpt, rwy, end, disp) ==
    [ARPT_ID |-> arpt, RWY_ID |-> rwy, RWY_END_ID |-> end, DISPLACED_THR_LEN |-> disp,
     RWY_END_ELEV |-> disp]

\* The rows an APT_RWY_END.csv of the model is made of.
RunwayEndRows ==
    { RunwayEndRow(<<"k", "a", "b">>, <<"1", "l">>, <<"1", "9">>, <<"0">>),
      RunwayEndRow(<<"K", "A", "B">>, <<"1", "L">>, <<"0", "1">>, <<>>),
      RunwayEndRow(<<"K", "A", "B">>, <<"1", "2">>, <<"1", "2">>, <<>>),
      RunwayEndRow(<<"K", "A", "B">>, <<" ">>, <<"1", "9">>, <<>>),
      RunwayEndRow(<<"K", "A", "B">>, <<"1", "L">>, <<>>, <<"i", "n", "f">>) }

\* for row in reader: ... of APT_RWY_END.csv (build_runways)
BuildRunwayEndsRow ==
    /\ builder = "runways" /\ CanRead("ends")
    /\ \E row \in RunwayEndRows :
          \E r \in {RunwayEndsStep(by_id, stats, row)} :
             /\ by_id' = r.d
             /\ stats' = r.st
             /\ child_file' = Append(child_file, <<"ends", row>>)
             /\ pc' = IF r.raised THEN "crashed" ELSE "ends"
    /\ UNCHANGED <<builder, other_list, file, seen_ids, out_list, ids1, pos, header, doc,
                   err>>

\* rec["ends"] = sorted(rec["ends"], key=lambda e: (e["end_id"] or ""))
RunwaysFinal(rec) ==
    [rec EXCEPT !.ends = StableSort(@, LAMBDA a, b : StrLess(a.end_id, b.end_id))]

\* The closing loop over sorted(runways.keys()) of build_runways.
BuildRunwaysEnd ==
    /\ builder = "runways" /\ pc \in ReadingStages
    /\ LET final == [i \in 1..Len(by_id) |-> <<by_id[i][1], RunwaysFinal(by_id[i][2])>>]
       IN /\ by_id' = final
          /\ out_list' = SortedValuesTuple(final)
    /\ pc' = "done"
    /\ UNCHANGED <<builder, other_list, file, seen_ids, stats, ids1, pos, child_file,
                   header, doc, err>>

(***************************************************************************)
(* build_airways.py                                                        *)
(***************************************************************************)

AirwaysStats ==
    [baseRowsRead |-> 0, segRowsRead |-> 0, baseWritten |-> 0, segmentsAdded |-> 0,
     skippedMissingAwyId |-> 0]

AirwayRecord(row, awy_id) ==
    [airway_id |-> awy_id,
     type      |-> Strip(row, "AWY_TYPE"),
     level     |-> Strip(row, "AWY_LEVEL"),
     status    |-> Strip(row, "STATUS_CODE"),
     segments  |-> <<>>]

\* One iteration of the AWY_BASE row loop of build_airways.
AirwaysStep(d, st, row) ==
    LET st1     == Inc(st, "baseRowsRead")
        awy_raw == Strip(row, "AWY_ID")
        awy_id  == StrUpper(awy_raw)
    IN IF Falsy(awy_raw) THEN [d |-> d, st |-> Inc(st1, "skippedMissingAwyId")]
       ELSE IF DictHas(d, awy_id) THEN [d |-> d, st |-> st1]
       ELSE [d  |-> DictSet(d, awy_id, AirwayRecord(row, awy_id)),
             st |-> Inc(st1, "baseWritten")]

AirwayRow(id, type) == [AWY_ID |-> id, AWY_TYPE |-> type]

AirwayRows ==
    { AirwayRow(<<"a", "b">>, <<"p">>),
      AirwayRow(<<" ", "A", "B">>, <<"q">>),
      AirwayRow(<<"A", "A">>, <<"p">>),
      AirwayRow(<<"B">>, <<>>),
      AirwayRow(<<" ">>, <<"p">>) }

BuildAirwaysRow ==
    /\ builder = "airways" /\ pc = "primary" /\ Len(file) < MaxRows
    /\ \E row \in AirwayRows :
          \E r \in {AirwaysStep(by_id, stats, row)} :
             /\ by_id' = r.d
             /\ stats' = r.st
             /\ file' = Append(file, row)
    /\ UNCHANGED <<builder, other_list, pc, seen_ids, out_list, ids1, pos, child_file,
                   header, doc, err>>

AirwaySegment(row) ==
    [seq       |-> IntOrNone(Strip(row, "SEQNO")),
     fix_id    |-> Strip(row, "FIX_ID"),
     fix_type  |-> Strip(row, "FIX_TYPE"),
     nav_id    |-> Strip(row, "NAV_ID"),
     nav_type  |-> Strip(row, "NAV_TYPE"),
     artcc     |-> Strip(row, "ARTCC_ID"),
     mea       |-> Strip(row, "MEA"),
     moca      |-> Strip(row, "MOCA"),
     min_alt   |-> Strip(row, "MIN_ALT"),
     max_alt   |-> Strip(row, "MAX_ALT"),
     direction |-> Strip(row, "DIRECTION")]

\* One iteration of the AWY_SEG_ALT row loop of build_airways: the segment is
\* appended to the airway of its AWY_ID; the OverflowError of _int_or_none leaves
\* the function.
AirwaySegsStep(d, st, row) ==
    LET st1     == Inc(st, "segRowsRead")
        awy_raw == Strip(row, "AWY_ID")
        awy_id  == StrUpper(awy_raw)
        seg     == AirwaySegment(row)
    IN IF Falsy(awy_raw) \/ ~DictHas(d, awy_id)
       THEN [d |-> d, st |-> st1, raised |-> FALSE]
       ELSE IF IsRaise(seg.seq) THEN [d |-> d, st |-> st1, raised |-> TRUE]
       ELSE [d  |-> [d EXCEPT ![DictIndex(d, awy_id)][2].segments = Append(@, seg)],
             st |-> Inc(st1, "segmentsAdded"), raised |-> FALSE]

AirwaySegRow(id, seqno, fix) == [AWY_ID |-> id, SEQNO |-> seqno, FIX_ID |-> fix]

\* The rows an AWY_SEG_ALT.csv of the model is made of.
AirwaySegRows ==
    { AirwaySegRow(<<"a", "b">>, <<"2">>, <<"B">>),
      AirwaySegRow(<<"A", "B">>, <<"1">>, <<"A">>),
      AirwaySegRow(<<"Z", "Z">>, <<"1">>, <<"A">>),
      AirwaySegRow(<<" ">>, <<"1">>, <<"A">>),
      AirwaySegRow(<<"A", "B">>, <<"i", "n", "f">>, <<"A">>),
      AirwaySegRow(<<"A", "B">>, <<"-", "5">>, <<"A">>),
      AirwaySegRow(<<"A", "B">>, <<>>, <<"C">>) }

\* for row in reader: ... of AWY_SEG_ALT.csv (build_airways)
BuildAirwaySegsRow ==
    /\ builder = "airways" /\ CanRead("segs")
    /\ \E row \in AirwaySegRows :
          \E r \in {AirwaySegsStep(by_id, stats, row)} :
             /\ by_id' = r.d
             /\ stats' = r.st
             /\ child_file' = Append(child_file, <<"segs", row>>)
             /\ pc' = IF r.raised THEN "crashed" ELSE "segs"
    /\ UNCHANGED <<builder, other_list, file, seen_ids, out_list, ids1, pos, header, doc,
                   err>>

\* s["seq"] if s["seq"] is not None else -1
SeqKey(s) == IF s.seq = None THEN -1 ELSE s.seq[2]

\* The order of the sort key (seq or -1, fix_id or "", nav_id or "").
SegmentLess(a, b) ==
    LET fa == Or(a.fix_id, <<>>)
        fb == Or(b.fix_id, <<>>)
    IN \/ SeqKey(a) < SeqKey(b)
       \/ /\ SeqKey(a) = SeqKey(b)
          /\ \/ StrLess(fa, fb)
             \/ fa = fb /\ StrLess(Or(a.nav_id, <<>>), Or(b.nav_id, <<>>))

\* rec["segments"] = sorted(rec["segments"], key=...)
AirwaysFinal(rec) == [rec EXCEPT !.segments = StableSort(@, SegmentLess)]

\* The closing loop over sorted(airways.keys()) of build_airways.
BuildAirwaysEnd ==
    /\ builder = "airways" /\ pc \in ReadingStages
    /\ LET final == [i \in 1..Len(by_id) |-> <<by_id[i][1], AirwaysFinal(by_id[i][2])>>]
       IN /\ by_id' = final
          /\ out_list' = SortedValuesStr(final)
    /\ pc' = "done"
    /\ UNCHANGED <<builder, other_list, file, seen_ids, stats, ids1, pos, child_file,
                   header, doc, err>>

(***************************************************************************)
(* build_ils.py                                                            *)
(***************************************************************************)

IlsStats ==
    [baseRows |-> 0, dmeRows |-> 0, gsRows |-> 0, mkrRows |-> 0, written |-> 0,
     skippedMissingKey |-> 0]

\* base_key(row): None, or <<arpt, rwy, loc>> upper-cased, loc "" when absent.
BaseKey(row) ==
    LET arpt == Or(Strip(row, "ARPT_ID"), Strip(row, "LOCATION_ID"))
        rwy  == Or(Strip(row, "RWY_END_ID"),
                   Or(Strip(row, "RWY_ID"), Strip(row, "RUNWAY_ID")))
        loc  == Or(Strip(row, "ILS_LOC_ID"),
                   Or(Strip(row, "ILS_ID"), Or(Strip(row, "LOC_ID"), Strip(row, "KEY"))))
    IN IF Falsy(arpt) \/ Falsy(rwy) THEN None
       ELSE <<StrUpper(arpt), StrUpper(rwy), StrUpper(Or(loc, <<>>))>>

IlsRecord(row, arpt, rwy, loc) ==
    [airport_identifier |-> arpt,
     runway_id |-> rwy,
     ident     |-> Or(loc, Or(Strip(row, "ILS_LOC_ID"),
                              Or(Strip(row, "ILS_ID"), Or(Strip(row, "LOC_ID"), <<>>)))),
     frequency |-> Or(Strip(row, "LOC_FREQ"), Strip(row, "FREQ")),
     latitude  |-> Round3OrNone(FloatOrNone(Strip(row, "LAT_DECIMAL"))),
     longitude |-> Round3OrNone(FloatOrNone(Strip(row, "LONG_DECIMAL"))),
     components |-> [dme |-> <<>>, gs |-> <<>>, markers |-> <<>>]]

\* One iteration of the ILS_BASE row loop of build_ils.
IlsStep(d, st, row) ==
    LET st1 == Inc(st, "baseRows")
        key == BaseKey(row)
    IN IF key = None THEN [d |-> d, st |-> Inc(st1, "skippedMissingKey")]
       ELSE IF DictHas(d, key) THEN [d |-> d, st |-> st1]
       ELSE [d  |-> DictSet(d, key, IlsRecord(row, key[1], key[2], key[3])),
             st |-> Inc(st1, "written")]

IlsRow(arpt, rwy, loc, freq) ==
    [ARPT_ID |-> arpt, RWY_END_ID |-> rwy, ILS_LOC_ID |-> loc, LOC_FREQ |-> freq]

IlsRows ==
    { IlsRow(<<"k", "a", "b">>, <<"1", "l">>, <<"i", "b">>, <<"p">>),
      IlsRow(<<"K", "A", "B">>, <<" ", "1", "L">>, <<"I", "B">>, <<"q">>),
      IlsRow(<<"K", "A", "B">>, <<"1", "L">>, <<"I", "A">>, <<"p">>),
      IlsRow(<<"K", "A", "B">>, <<"1", "L">>, <<" ">>, <<"p">>),
      IlsRow(<<"K", "A", "A">>, <<"0">>, <<"I", "B">>, <<>>),
      IlsRow(<<" ">>, <<"1", "L">>, <<"I", "B">>, <<"p">>),
      IlsRow(<<"K", "A", "B">>, <<>>, <<"I", "B">>, <<"p">>) }

BuildIlsRow ==
    /\ builder = "ils" /\ pc = "primary" /\ Len(file) < MaxRows
    /\ \E row \in IlsRows :
          \E r \in {IlsStep(by_id, stats, row)} :
             /\ by_id' = r.d
             /\ stats' = r.st
             /\ file' = Append(file, row)
    /\ UNCHANGED <<builder, other_list, pc, seen_ids, out_list, ids1, pos, child_file,
                   header, doc, err>>

\* dme_key(row): None, or <<arpt, rwy, loc>> upper-cased, loc "" when absent.
DmeKey(row) ==
    LET arpt == Or(Strip(row, "ARPT_ID"), Strip(row, "LOCATION_ID"))
        rwy  == Or(Strip(row, "RWY_END_ID"),
                   Or(Strip(row, "RWY_ID"), Strip(row, "RUNWAY_ID")))
        loc  == Or(Strip(row, "ILS_LOC_ID"), Or(Strip(row, "ILS_ID"), Strip(row, "LOC_ID")))
    IN IF Falsy(arpt) \/ Falsy(rwy) THEN None
       ELSE <<StrUpper(arpt), StrUpper(rwy), StrUpper(Or(loc, <<>>))>>

\* _all_keys(row): the non-blank cells of the row, stripped.
AllKeys(row) ==
    [k \in {c \in DOMAIN row : StrStrip(row[c]) # <<>>} |-> StrStrip(row[k])]

\* The collection of ILS components each secondary source fills.
IlsCollection == [dme |-> "dme", gs |-> "gs", mkr |-> "markers"]

\* The counter of rows read from each secondary source.
IlsRowCounter == [dme |-> "dmeRows", gs |-> "gsRows", mkr |-> "mkrRows"]

\* IlsParent without the scan for an entity of the same airport and runway.
IlsParentExactOnly(d, key) == IF DictHas(d, key) THEN DictIndex(d, key) ELSE 0

\* IlsParent without the test of the full key: the first entity of the airport
\* and runway is taken even when another entity has the key itself.
IlsParentReducedOnly(d, key) ==
    LET hits == {i \in 1..Len(d) : d[i][1][1] = key[1] /\ d[i][1][2] = key[2]}
    IN IF hits = {} THEN 0 ELSE CHOOSE i \in hits : \A j \in hits : i <= j

\* The position in ils_by_key of the entity a component of key `key` is appended
\* to: the entity of that key, else the first entity in the dict's iteration
\* order with the same airport and runway, else 0.
IlsParent(d, key) ==
    IF DictHas(d, key) THEN DictIndex(d, key)
    ELSE LET hits == {i \in 1..Len(d) : d[i][1][1] = key[1] /\ d[i][1][2] = key[2]}
         IN IF hits = {} THEN 0 ELSE CHOOSE i \in hits : \A j \in hits : i <= j

\* One iteration of the ILS_DME, ILS_GS or ILS_MKR row loop of build_ils.
IlsComponentStep(d, st, src, row) ==
    LET st1 == Inc(st, IlsRowCounter[src])
        key == DmeKey(row)
        i   == IlsParent(d, key)
        c   == IlsCollection[src]
    IN IF key = None THEN [d |-> d, st |-> st1]
       ELSE IF i = 0 THEN [d |-> d, st |-> st1]
       ELSE [d  |-> [d EXCEPT ![i][2].components[c] = Append(@, AllKeys(row))],
             st |-> st1]

IlsComponentRow(arpt, rwy, loc, chan) ==
    [ARPT_ID |-> arpt, RWY_END_ID |-> rwy, ILS_LOC_ID |-> loc, CHANNEL |-> chan]

\* The rows an ILS_DME.csv of the model is made of: a row of the key of an entity,
\* one of another localizer of its runway, one of no entity and one without runway.
IlsDmeRows ==
    { IlsComponentRow(<<"k", "a", "b">>, <<"1", "L">>, <<"i", "b">>, <<" ", "c">>),
      IlsComponentRow(<<"K", "A", "B">>, <<"1", "L">>, <<"I", "C">>, <<>>),
      IlsComponentRow(<<"K", "A", "C">>, <<"1", "L">>, <<"I", "B">>, <<"c">>),
      IlsComponentRow(<<"K", "A", "B">>, <<" ">>, <<"I", "B">>, <<"c">>) }

\* The rows an ILS_GS.csv of the model is made of.
IlsGsRows ==
    { IlsComponentRow(<<"K", "A", "B">>, <<"1", "L">>, <<"I", "B">>, <<"c">>),
      IlsComponentRow(<<"K", "A", "B">>, <<"1", "L">>, <<>>, <<"c">>) }

\* The rows an ILS_MKR.csv of the model is made of.
IlsMkrRows ==
    { IlsComponentRow(<<"K", "A", "B">>, <<"1", "L">>, <<"I", "A">>, <<"c">>) }

\* for row in reader: ... of the secondary source src of build_ils
BuildIlsComponentRow(src, rows) ==
    /\ builder = "ils" /\ CanRead(src)
    /\ \E row \in rows :
          \E r \in {IlsComponentStep(by_id, stats, src, row)} :
             /\ by_id' = r.d
             /\ stats' = r.st
             /\ child_file' = Append(child_file, <<src, row>>)
    /\ pc' = src
    /\ UNCHANGED <<builder, other_list, file, seen_ids, out_list, ids1, pos, header, doc,
                   err>>

BuildIlsDmeRow == BuildIlsComponentRow("dme", IlsDmeRows)

BuildIlsGsRow == BuildIlsComponentRow("gs", IlsGsRows)

BuildIlsMkrRow == BuildIlsComponentRow("mkr", IlsMkrRows)

\* out_list = [ils_by_key[k] for k in sorted(ils_by_key.keys())]; return
BuildIlsEnd ==
    /\ builder = "ils" /\ pc \in ReadingStages
    /\ out_list' = SortedValuesTuple(by_id)
    /\ pc' = "done"
    /\ UNCHANGED <<builder, other_list, file, by_id, seen_ids, stats, ids1, pos,
                   child_file, header, doc, err>>

(***************************************************************************)
(* build_procedures.py                                                     *)
(***************************************************************************)

ProceduresStats ==
    [baseRows |-> 0, rteRows |-> 0, aptRows |-> 0, written |-> 0, skippedMissingId |-> 0]

\* The procedure id of a DP_BASE row, before upper-casing.
DepartureId(row) ==
    Or(Strip(row, "DP_COMPUTER_CODE"), Or(Strip(row, "DP_NAME"), Strip(row, "DP_ID")))

\* _route_row_to_segment(row, seqno_key); a key the code leaves out of the segment
\* is None here (no value the code stores is None, so equal segments are equal
\* dictionaries).
RouteRowToSegment(row, seqno_key) ==
    [seq            |-> IntOrNone(Strip(row, seqno_key)),
     fix_id         |-> Strip(row, "FIX_ID"),
     fix_type       |-> Strip(row, "FIX_TYPE"),
     nav_id         |-> Strip(row, "NAV_ID"),
     nav_type       |-> Strip(row, "NAV_TYPE"),
     path_term      |-> Strip(row, "PATH_TERM"),
     alt_desc       |-> Strip(row, "ALT_DESC"),
     speed          |-> Strip(row, "SPEED"),
     speed_alt      |-> Strip(row, "SPEED_ALT"),
     rnv_leg        |-> Strip(row, "RNV_LEG"),
     transition     |-> Strip(row, "TRANSITION"),
     point          |-> Strip(row, "POINT"),
     point_type     |-> Strip(row, "POINT_TYPE"),
     next_point     |-> Strip(row, "NEXT_POINT"),
     route_name     |-> Strip(row, "ROUTE_NAME"),
     body_seq       |-> Strip(row, "BODY_SEQ"),
     arpt_rwy_assoc |-> Strip(row, "ARPT_RWY_ASSOC")]

\* seqno_key of the route pass, from the header of the route file.
SeqnoKey(fieldnames) ==
    IF "SEQNUM" \in fieldnames THEN "SEQNUM"
    ELSE IF "POINT_SEQ" \in fieldnames THEN "POINT_SEQ" ELSE "SEQNO"

\* One iteration of the DP_RTE / STAR_RTE row loop, raw being the procedure id of
\* the row before upper-casing; the OverflowError of _int_or_none leaves the
\* function.
ProcRouteStep(d, st, row, raw) ==
    LET st1     == Inc(st, "rteRows")
        proc_id == StrUpper(raw)
        seg     == RouteRowToSegment(row, SeqnoKey(DOMAIN row))
    IN IF Falsy(raw) \/ ~DictHas(d, proc_id) THEN [d |-> d, st |-> st1, raised |-> FALSE]
       ELSE IF IsRaise(seg.seq) THEN [d |-> d, st |-> st1, raised |-> TRUE]
       ELSE [d  |-> [d EXCEPT ![DictIndex(d, proc_id)][2].route = Append(@, seg)],
             st |-> st1, raised |-> FALSE]

\* apt_rec of the DP_APT / STAR_APT row loop; runway is None when the key is absent.
AptRec(row) ==
    [airport_identifier |-> StrUpper(Or(Strip(row, "ARPT_ID"), <<>>)),
     runway |-> LET rwy == Or(Strip(row, "RWY_END_ID"),
                              Or(Strip(row, "RWY"), Strip(row, "RUNWAY")))
                IN IF Falsy(rwy) THEN None ELSE StrUpper(rwy)]

\* One iteration of the DP_APT / STAR_APT row loop: an airport record not yet in
\* the procedure's list is appended.
ProcAirportsStep(d, st, row, raw) ==
    LET st1      == Inc(st, "aptRows")
        proc_id  == StrUpper(raw)
        apt_rec  == AptRec(row)
        existing == d[DictIndex(d, proc_id)][2].airports
    IN IF Falsy(raw) \/ ~DictHas(d, proc_id) THEN [d |-> d, st |-> st1]
       ELSE IF \E k \in 1..Len(existing) :
                  /\ existing[k].airport_identifier = apt_rec.airport_identifier
                  /\ existing[k].runway = apt_rec.runway
       THEN [d |-> d, st |-> st1]
       ELSE [d  |-> [d EXCEPT ![DictIndex(d, proc_id)][2].airports = Append(@, apt_rec)],
             st |-> st1]

\* rec["route"] = sorted(rec["route"], key=lambda s: seq or -1)
ProcFinal(rec) ==
    [rec EXCEPT !.route = StableSort(@, LAMBDA a, b : SeqKey(a) < SeqKey(b))]

DepartureRecord(row, proc_id) ==
    [id       |-> proc_id,
     name     |-> Or(Strip(row, "DP_NAME"), <<>>),
     type     |-> Or(Strip(row, "DP_TYPE"), Strip(row, "GRAPHICAL_DP_TYPE")),
     status   |-> Strip(row, "STATUS_CODE"),
     airports |-> <<>>,
     route    |-> <<>>]

\* One iteration of the DP_BASE row loop of build_departures.
DeparturesStep(d, st, row) ==
    LET st1     == Inc(st, "baseRows")
        raw     == DepartureId(row)
        proc_id == StrUpper(raw)
    IN IF Falsy(raw) THEN [d |-> d, st |-> Inc(st1, "skippedMissingId")]
       ELSE IF DictHas(d, proc_id) THEN [d |-> d, st |-> st1]
       ELSE [d  |-> DictSet(d, proc_id, DepartureRecord(row, proc_id)),
             st |-> Inc(st1, "written")]

DepartureRow(code, name, type) ==
    [DP_COMPUTER_CODE |-> code, DP_NAME |-> name, DP_TYPE |-> type]

DepartureRows ==
    { DepartureRow(<<"a", "b">>, <<"n">>, <<"p">>),
      DepartureRow(<<" ", "A", "B">>, <<"n">>, <<"q">>),
      DepartureRow(<<>>, <<"a", "a">>, <<"p">>),
      DepartureRow(<<"B">>, <<>>, <<>>),
      DepartureRow(<<" ">>, <<" ">>, <<"p">>) }

BuildDeparturesRow ==
    /\ builder = "departures" /\ pc = "primary" /\ Len(file) < MaxRows
    /\ \E row \in DepartureRows :
          \E r \in {DeparturesStep(by_id, stats, row)} :
             /\ by_id' = r.d
             /\ stats' = r.st
             /\ file' = Append(file, row)
    /\ UNCHANGED <<builder, other_list, pc, seen_ids, out_list, ids1, pos, child_file,
                   header, doc, err>>

DepartureRteRow(code, seq, fix) ==
    [DP_COMPUTER_CODE |-> code, POINT_SEQ |-> seq, FIX_ID |-> fix]

\* The rows a DP_RTE.csv of the model is made of.
DepartureRteRows ==
    { DepartureRteRow(<<"a", "b">>, <<"2">>, <<"B">>),
      DepartureRteRow(<<"A", "B">>, <<"1">>, <<"A">>),
      DepartureRteRow(<<"Z", "Z">>, <<"1">>, <<"A">>),
      DepartureRteRow(<<"A", "B">>, <<"i", "n", "f">>, <<"A">>),
      DepartureRteRow(<<"A", "B">>, <<"2">>, <<"A">>) }

\* for row in reader: ... of DP_RTE.csv (build_departures)
BuildDeparturesRteRow ==
    /\ builder = "departures" /\ CanRead("rte")
    /\ \E row \in DepartureRteRows :
          \E r \in {ProcRouteStep(by_id, stats, row, DepartureId(row))} :
             /\ by_id' = r.d
             /\ stats' = r.st
             /\ child_file' = Append(child_file, <<"rte", row>>)
             /\ pc' = IF r.raised THEN "crashed" ELSE "rte"
    /\ UNCHANGED <<builder, other_list, file, seen_ids, out_list, ids1, pos, header, doc,
                   err>>

DepartureAptRow(code, arpt, rwy) ==
    [DP_COMPUTER_CODE |-> code, ARPT_ID |-> arpt, RWY_END_ID |-> rwy]

\* The rows a DP_APT.csv of the model is made of.
DepartureAptRows ==
    { DepartureAptRow(<<"a", "b">>, <<"k", "a", "b">>, <<"1", "l">>),
      DepartureAptRow(<<"A", "B">>, <<"K", "A", "B">>, <<"1", "L">>),
      DepartureAptRow(<<"A", "B">>, <<"K", "A", "B">>, <<>>),
      DepartureAptRow(<<"Z", "Z">>, <<"K", "A", "B">>, <<>>) }

\* for row in reader: ... of DP_APT.csv (build_departures)
BuildDeparturesAptRow ==
    /\ builder = "departures" /\ CanRead("apt")
    /\ \E row \in DepartureAptRows :
          \E r \in {ProcAirportsStep(by_id, stats, row, DepartureId(row))} :
             /\ by_id' = r.d
             /\ stats' = r.st
             /\ child_file' = Append(child_file, <<"apt", row>>)
             /\ pc' = "apt"
    /\ UNCHANGED <<builder, other_list, file, seen_ids, out_list, ids1, pos, header, doc,
                   err>>

\* The closing loop over sorted(procs.keys()) of build_departures.
BuildDeparturesEnd ==
    /\ builder = "departures" /\ pc \in ReadingStages
    /\ LET final == [i \in 1..Len(by_id) |-> <<by_id[i][1], ProcFinal(by_id[i][2])>>]
       IN /\ by_id' = final
          /\ out_list' = SortedValuesStr(final)
    /\ pc' = "done"
    /\ UNCHANGED <<builder, other_list, file, seen_ids, stats, ids1, pos, child_file,
                   header, doc, err>>

\* The procedure id of a STAR_BASE row, before upper-casing.
ArrivalId(row) ==
    Or(Strip(row, "STAR_COMPUTER_CODE"),
       Or(Strip(row, "ARRIVAL_NAME"),
          Or(Strip(row, "STAR_ID"), Or(Strip(row, "SID_STAR_ID"), Strip(row, "ID")))))

ArrivalRecord(row, proc_id) ==
    [id       |-> proc_id,
     name     |-> Or(Strip(row, "ARRIVAL_NAME"),
                     Or(Strip(row, "STAR_NAME"), Or(Strip(row, "NAME"), <<>>))),
     type     |-> Or(Strip(row, "STAR_TYPE"), Strip(row, "TYPE")),
     status   |-> Strip(row, "STATUS_CODE"),
     airports |-> <<>>,
     route    |-> <<>>]

\* One iteration of the STAR_BASE row loop of build_arrivals.
ArrivalsStep(d, st, row) ==
    LET st1     == Inc(st, "baseRows")
        raw     == ArrivalId(row)
        proc_id == StrUpper(raw)
    IN IF Falsy(raw) THEN [d |-> d, st |-> Inc(st1, "skippedMissingId")]
       ELSE IF DictHas(d, proc_id) THEN [d |-> d, st |-> st1]
       ELSE [d  |-> DictSet(d, proc_id, ArrivalRecord(row, proc_id)),
             st |-> Inc(st1, "written")]

ArrivalRow(code, name, type) ==
    [STAR_COMPUTER_CODE |-> code, ARRIVAL_NAME |-> name, STAR_TYPE |-> type]

ArrivalRows ==
    { ArrivalRow(<<"a", "b">>, <<"n">>, <<"p">>),
      ArrivalRow(<<" ", "A", "B">>, <<"n">>, <<"q">>),
      ArrivalRow(<<>>, <<"a", "a">>, <<"p">>),
      ArrivalRow(<<"B">>, <<>>, <<>>),
      ArrivalRow(<<" ">>, <<" ">>, <<"p">>) }

BuildArrivalsRow ==
    /\ builder = "arrivals" /\ pc = "primary" /\ Len(file) < MaxRows
    /\ \E row \in ArrivalRows :
          \E r \in {ArrivalsStep(by_id, stats, row)} :
             /\ by_id' = r.d
             /\ stats' = r.st
             /\ file' = Append(file, row)
    /\ UNCHANGED <<builder, other_list, pc, seen_ids, out_list, ids1, pos, child_file,
                   header, doc, err>>

ArrivalRteRow(code, seq, fix) ==
    [STAR_COMPUTER_CODE |-> code, POINT_SEQ |-> seq, FIX_ID |-> fix]

\* The rows a STAR_RTE.csv of the model is made of.
ArrivalRteRows ==
    { ArrivalRteRow(<<"a", "b">>, <<"2">>, <<"B">>),
      ArrivalRteRow(<<"A", "B">>, <<"1">>, <<"A">>),
      ArrivalRteRow(<<"Z", "Z">>, <<"1">>, <<"A">>),
      ArrivalRteRow(<<"A", "B">>, <<"i", "n", "f">>, <<"A">>),
      ArrivalRteRow(<<"A", "B">>, <<"2">>, <<"A">>) }

\* for row in reader: ... of STAR_RTE.csv (build_arrivals)
BuildArrivalsRteRow ==
    /\ builder = "arrivals" /\ CanRead("rte")
    /\ \E row \in ArrivalRteRows :
          \E r \in {ProcRouteStep(by_id, stats, row, ArrivalId(row))} :
             /\ by_id' = r.d
             /\ stats' = r.st
             /\ child_file' = Append(child_file, <<"rte", row>>)
             /\ pc' = IF r.raised THEN "crashed" ELSE "rte"
    /\ UNCHANGED <<builder, other_list, file, seen_ids, out_list, ids1, pos, header, doc,
                   err>>

ArrivalAptRow(code, arpt, rwy) ==
    [STAR_COMPUTER_CODE |-> code, ARPT_ID |-> arpt, RWY_END_ID |-> rwy]

\* The rows a STAR_APT.csv of the model is made of.
ArrivalAptRows ==
    { ArrivalAptRow(<<"a", "b">>, <<"k", "a", "b">>, <<"1", "l">>),
      ArrivalAptRow(<<"A", "B">>, <<"K", "A", "B">>, <<"1", "L">>),
      ArrivalAptRow(<<"A", "B">>, <<"K", "A", "B">>, <<>>),
      ArrivalAptRow(<<"Z", "Z">>, <<"K", "A", "B">>, <<>>) }

\* for row in reader: ... of STAR_APT.csv (build_arrivals)
BuildArrivalsAptRow ==
    /\ builder = "arrivals" /\ CanRead("apt")
    /\ \E row \in ArrivalAptRows :
          \E r \in {ProcAirportsStep(by_id, stats, row, ArrivalId(row))} :
             /\ by_id' = r.d
             /\ stats' = r.st
             /\ child_file' = Append(child_file, <<"apt", row>>)
             /\ pc' = "apt"
    /\ UNCHANGED <<builder, other_list, file, seen_ids, out_list, ids1, pos, header, doc,
                   err>>

\* The closing loop over sorted(procs.keys()) of build_arrivals.
BuildArrivalsEnd ==
    /\ builder = "arrivals" /\ pc \in ReadingStages
    /\ LET final == [i \in 1..Len(by_id) |-> <<by_id[i][1], ProcFinal(by_id[i][2])>>]
       IN /\ by_id' = final
          /\ out_list' = SortedValuesStr(final)
    /\ pc' = "done"
    /\ UNCHANGED <<builder, other_list, file, seen_ids, stats, ids1, pos, child_file,
                   header, doc, err>>

(***************************************************************************)
(* main() of the build scripts                                             *)
(***************************************************************************)

\* The output document an earlier run left on disk.
OldDoc == <<"old">>

\* main() after the build function has returned out_list: with the empty-output
\* test (refuses) an empty list is a fatal error and nothing is written; else
\* json.dump(out_list) replaces the document.
MainWrite(b, refuses) ==
    /\ builder = b /\ pc = "done"
    /\ IF refuses /\ out_list = <<>>
       THEN pc' = "fatal" /\ err' = <<"output is empty", b>> /\ doc' = doc
       ELSE pc' = "written" /\ doc' = out_list /\ err' = err
    /\ UNCHANGED <<builder, other_list, file, by_id, seen_ids, out_list, stats, ids1, pos,
                   child_file, header>>

MainAirports == MainWrite("airports", FALSE)

MainFixes == MainWrite("fixes", FALSE)

MainNavaids == MainWrite("navaids", TRUE)

MainRunways == MainWrite("runways", TRUE)

MainAirways == MainWrite("airways", TRUE)

MainIls == MainWrite("ils", TRUE)

MainComms == MainWrite("comms", TRUE)

MainFrequencies == MainWrite("frequencies", TRUE)

\* The lists the build function of the other dataset of build_procedures can
\* return: the empty list and the list of a base file of one row.
OtherLists(b) ==
    {<<>>,
     IF b = "departures"
     THEN SortedValuesStr(ArrivalsStep(<<>>, ProceduresStats,
                                       ArrivalRow(<<"a", "b">>, <<"n">>, <<"p">>)).d)
     ELSE SortedValuesStr(DeparturesStep(<<>>, ProceduresStats,
                                         DepartureRow(<<"a", "b">>, <<"n">>, <<"p">>)).d)}

\* ProceduresOutcome for a main() that writes departures.json before it tests the
\* arrivals.
ProceduresOutcomeWriteFirst(dep_list, arr_list, old, old_err) ==
    IF dep_list = <<>>
    THEN [pc |-> "fatal", err |-> <<"output is empty", "departures">>, doc |-> old]
    ELSE IF arr_list = <<>>
    THEN [pc |-> "fatal", err |-> <<"output is empty", "arrivals">>,
          doc |-> <<dep_list, old>>]
    ELSE [pc |-> "written", err |-> old_err,
          doc |-> <<dep_list, arr_list>>]

\* main() of build_procedures once both build functions have returned: the way it
\* ends, the error it reports and the documents departures.json and arrivals.json
\* it leaves as <<departures, arrivals>>, old being the documents before the run
\* and old_err the error so far.
ProceduresOutcome(dep_list, arr_list, old, old_err) ==
    IF dep_list = <<>>
    THEN [pc |-> "fatal", err |-> <<"output is empty", "departures">>, doc |-> old]
    ELSE IF arr_list = <<>>
    THEN [pc |-> "fatal", err |-> <<"output is empty", "arrivals">>, doc |-> old]
    ELSE [pc |-> "written", err |-> old_err,
          doc |-> <<dep_list, arr_list>>]

\* main() of build_procedures builds departures and arrivals, tests the departures
\* and then the arrivals for emptiness, and only then writes both documents.
MainProcedures ==
    /\ builder \in {"departures", "arrivals"} /\ pc = "done"
    /\ \E other \in OtherLists(builder) :
          \E r \in {IF builder = "departures"
                     THEN ProceduresOutcome(out_list, other, doc, err)
                     ELSE ProceduresOutcome(other, out_list, doc, err)} :
             /\ other_list' = other
             /\ pc' = r.pc /\ err' = r.err /\ doc' = r.doc
    /\ UNCHANGED <<builder, file, by_id, seen_ids, out_list, stats, ids1, pos, child_file,
                   header>>

(***************************************************************************)
(* The runs                                                                *)
(***************************************************************************)

ZeroStats(b) ==
    CASE b = "comms" -> CommsStats
      [] b = "frequencies" -> FrequenciesStats
      [] b = "navaids" -> NavaidsStats
      [] b = "fixes" -> FixesStats
      [] b = "airports" -> AirportsStats
      [] b = "runways" -> RunwaysStats
      [] b = "airways" -> AirwaysStats
      [] b = "ils" -> IlsStats
      [] b = "departures" -> ProceduresStats
      [] b = "arrivals" -> ProceduresStats

Init ==
    /\ builder \in Builders
    /\ pc = IF builder = "airports" THEN "start" ELSE "primary"
    /\ file = <<>>
    /\ by_id = <<>>
    /\ seen_ids = {}
    /\ out_list = <<>>
    /\ stats = ZeroStats(builder)
    /\ ids1 = <<>>
    /\ pos = 0
    /\ child_file = <<>>
    /\ header \in (IF builder = "airports" THEN AirportHeaders ELSE {<<>>})
    /\ doc = OldDoc
    /\ err = None
    /\ other_list = None

Next ==
    \/ BuildCommsRow
    \/ BuildCommsEnd
    \/ ValidateSecondRun
    \/ ValidateRerunRow
    \/ ValidateCompare
    \/ BuildFrequenciesRow
    \/ BuildFrequenciesEnd
    \/ BuildNavaidsRow
    \/ BuildNavaidsEnd
    \/ BuildFixesRow
    \/ BuildFixesEnd
    \/ BuildAirportsResolve
    \/ BuildAirportsRow
    \/ BuildAirportsRunwayRow
    \/ BuildAirportsFreqRow
    \/ BuildAirportsEnd
    \/ BuildRunwaysRow
    \/ BuildRunwayEndsRow
    \/ BuildRunwaysEnd
    \/ BuildAirwaysRow
    \/ BuildAirwaySegsRow
    \/ BuildAirwaysEnd
    \/ BuildIlsRow
    \/ BuildIlsDmeRow
    \/ BuildIlsGsRow
    \/ BuildIlsMkrRow
    \/ BuildIlsEnd
    \/ BuildDeparturesRow
    \/ BuildDeparturesRteRow
    \/ BuildDeparturesAptRow
    \/ BuildDeparturesEnd
    \/ BuildArrivalsRow
    \/ BuildArrivalsRteRow
    \/ BuildArrivalsAptRow
    \/ BuildArrivalsEnd
    \/ MainAirports
    \/ MainFixes
    \/ MainNavaids
    \/ MainRunways
    \/ MainAirways
    \/ MainIls
    \/ MainComms
    \/ MainFrequencies
    \/ MainProcedures

Spec == Init /\ [][Next]_vars

\* The runs of build_ils alone.
InitIls == Init /\ builder = "ils"

NextIls ==
    \/ BuildIlsRow
    \/ BuildIlsDmeRow
    \/ BuildIlsGsRow
    \/ BuildIlsMkrRow
    \/ BuildIlsEnd
    \/ MainIls

SpecIls == InitIls /\ [][NextIls]_vars

\* The runs of build_airports alone.
InitAirports == Init /\ builder = "airports"

NextAirports ==
    \/ BuildAirportsResolve
    \/ BuildAirportsRow
    \/ BuildAirportsRunwayRow
    \/ BuildAirportsFreqRow
    \/ BuildAirportsEnd
    \/ MainAirports

SpecAirports == InitAirports /\ [][NextAirports]_vars

\* The runs of build_procedures alone.
InitProcedures == Init /\ builder \in {"departures", "arrivals"}

NextProcedures ==
    \/ BuildDeparturesRow
    \/ BuildDeparturesRteRow
    \/ BuildDeparturesAptRow
    \/ BuildDeparturesEnd
    \/ BuildArrivalsRow
    \/ BuildArrivalsRteRow
    \/ BuildArrivalsAptRow
    \/ BuildArrivalsEnd
    \/ MainProcedures

SpecProcedures == InitProcedures /\ [][NextProcedures]_vars

\* The builders that read secondary sources, on their own.
SecondaryBuilders == {"airports", "runways", "airways", "ils", "departures", "arrivals"}

InitSecondary == Init /\ builder \in SecondaryBuilders

NextSecondary ==
    \/ BuildAirportsResolve
    \/ BuildAirportsRow
    \/ BuildAirportsRunwayRow
    \/ BuildAirportsFreqRow
    \/ BuildAirportsEnd
    \/ BuildRunwaysRow
    \/ BuildRunwayEndsRow
    \/ BuildRunwaysEnd
    \/ BuildAirwaysRow
    \/ BuildAirwaySegsRow
    \/ BuildAirwaysEnd
    \/ BuildIlsRow
    \/ BuildIlsDmeRow
    \/ BuildIlsGsRow
    \/ BuildIlsMkrRow
    \/ BuildIlsEnd
    \/ BuildDeparturesRow
    \/ BuildDeparturesRteRow
    \/ BuildDeparturesAptRow
    \/ BuildDeparturesEnd
    \/ BuildArrivalsRow
    \/ BuildArrivalsRteRow
    \/ BuildArrivalsAptRow
    \/ BuildArrivalsEnd

SpecSecondary == InitSecondary /\ [][NextSecondary]_vars

(***************************************************************************)
(* Notions the properties share                                            *)
(***************************************************************************)

\* The datasets whose entities have a canonical identifier.
KeyedBuilders == Builders \ {"frequencies"}

\* The builders that keep their entities in a dict.
DictBuilders == KeyedBuilders \ {"comms"}

\* The row loop body of a dict builder.
StepOf(b, d, st, row) ==
    CASE b = "airports"   -> AirportsStep(d, st, row)
      [] b = "navaids"    -> NavaidsStep(d, st, row)
      [] b = "fixes"      -> FixesStep(d, st, row)
      [] b = "runways"    -> RunwaysStep(d, st, row)
      [] b = "airways"    -> AirwaysStep(d, st, row)
      [] b = "ils"        -> IlsStep(d, st, row)
      [] b = "departures" -> DeparturesStep(d, st, row)
      [] b = "arrivals"   -> ArrivalsStep(d, st, row)

\* The entity a row creates when it is the only row of its source, as
\* <<identifier, record>>; None when the row passes the filters of no builder run.
Fresh(b, row) ==
    IF b = "comms"
    THEN LET rec == CommsStep(<<>>, {}, CommsStats, row).out[1] IN <<rec.outlet_id, rec>>
    ELSE LET d == StepOf(b, <<>>, ZeroStats(b), row).d
         IN IF d = <<>> THEN None ELSE d[1]

\* The row passes all filters of its builder.
Accepted(b, row) == Fresh(b, row) # None

\* The entities a run holds, as <<identifier, record>> pairs.
Entities == IF builder = "comms"
            THEN [i \in 1..Len(out_list) |-> <<out_list[i].outlet_id, out_list[i]>>]
            ELSE by_id

ChildFields ==
    {"runways", "frequencies", "ends", "segments", "components", "airports", "route"}

\* The scalar attributes of an entity.
Scalars(rec) == [f \in DOMAIN rec \ ChildFields |-> rec[f]]

\* The entity each row of the file creates on its own.
FreshOfFile(b) == [i \in 1..Len(file) |-> Fresh(b, file[i])]

\* The index of the first accepted row of identifier k, 0 when there is none;
\* fr is FreshOfFile.
FirstAccepted(fr, k) ==
    LET hits == {i \in 1..Len(fr) : fr[i] # None /\ fr[i][1] = k}
    IN IF hits = {} THEN 0 ELSE CHOOSE i \in hits : \A j \in hits : i <= j

\* The canonical identifier of an output record, as a tuple of texts.
RecId(b, rec) ==
    CASE b \in {"airports", "navaids", "fixes"} -> <<rec.identifier>>
      [] b = "runways" -> <<rec.airport_identifier, rec.runway_id>>
      [] b = "ils" -> <<rec.airport_identifier, rec.runway_id, rec.ident>>
      [] b = "airways" -> <<rec.airway_id>>
      [] b \in {"departures", "arrivals"} -> <<rec.id>>
      [] b = "comms" -> <<rec.outlet_id>>

\* The parts of an identifier that make it present: the whole identifier, and
\* for an ILS the airport and the runway (the localizer part may be "").
RequiredIdParts(b, rec) ==
    IF b = "ils" THEN <<rec.airport_identifier, rec.runway_id>> ELSE RecId(b, rec)

\* The first entity of every identifier is the one of the first accepted row.
FirstSeenWins(b) ==
    LET fr == FreshOfFile(b)
    IN \A e \in 1..Len(Entities) :
          LET k == Entities[e][1]
              i == FirstAccepted(fr, k)
          IN /\ i # 0
             /\ Scalars(Entities[e][2]) = Scalars(fr[i][2])
             /\ \A e2 \in 1..Len(Entities) : Entities[e2][1] = k => e2 = e

\* Rows i < j of the file are accepted rows of one identifier; fr is FreshOfFile.
SameIdentifier(fr, i, j) ==
    i < j /\ fr[i] # None /\ fr[j] # None /\ fr[i][1] = fr[j][1]

\* Two accepted rows of one identifier and different attributes were read.
SawConflictingDuplicate(b) ==
    LET fr == FreshOfFile(b)
    IN \E i, j \in 1..Len(file) :
          SameIdentifier(fr, i, j) /\ Scalars(fr[i][2]) # Scalars(fr[j][2])

(***************************************************************************)
(* Properties                                                              *)
(***************************************************************************)

\* C1: after a run of a keyed builder no two records of the output list carry
\* the same canonical identifier (for runways and ILS the same composite key),
\* and no record has an empty or null identifier.
C1_UniqueNonEmptyIds ==
    (pc = "done" /\ builder \in KeyedBuilders) =>
        /\ \A i, j \in 1..Len(out_list) :
              i # j => RecId(builder, out_list[i]) # RecId(builder, out_list[j])
        /\ \A i \in 1..Len(out_list) :
              LET parts == RequiredIdParts(builder, out_list[i])
              IN \A n \in 1..Len(parts) : ~Falsy(parts[n])

\* C1 witness: a finished run that read an identifier twice and wrote two entities.
C1_Witness ==
    /\ pc = "done" /\ builder \in KeyedBuilders
    /\ Len(out_list) >= 2
    /\ LET fr == FreshOfFile(builder)
       IN \E i, j \in 1..Len(file) : SameIdentifier(fr, i, j)

\* C2: in build_navaids, build_fixes, build_airways, build_runways, build_ils,
\* build_departures, build_arrivals and build_comms the scalar attributes of the
\* entity of an identifier are those of the first primary row of that identifier
\* that passed all filters; a later row of the identifier never replaces it.
C2_FirstSeenWins ==
    (builder \in KeyedBuilders \ {"airports"}) => FirstSeenWins(builder)

\* C2 witness: a later accepted row of an existing identifier with other
\* attributes has been read.
C2_Witness ==
    /\ builder \in KeyedBuilders \ {"airports"}
    /\ pc = "done"
    /\ SawConflictingDuplicate(builder)

\* C3: in build_airports several accepted APT_BASE rows of one ARPT_ID (trimmed,
\* upper-cased) give exactly one airport, whose attributes are those of the first
\* such row.
C3_AirportFirstSeenWins ==
    builder = "airports" => FirstSeenWins("airports")

(***************************************************************************)
(* Counters                                                                *)
(***************************************************************************)

\* The counter of primary rows read.
RowsRead(b, st) ==
    CASE b = "airports" -> st.rows_read
      [] b = "fixes" -> st.rows
      [] b = "airways" -> st.baseRowsRead
      [] b \in {"ils", "departures", "arrivals"} -> st.baseRows
      [] OTHER -> st.totalRowsRead

\* The counter of primary rows written.
Written(b, st) ==
    CASE b \in {"airports", "fixes", "ils", "departures", "arrivals"} -> st.written
      [] b = "airways" -> st.baseWritten
      [] OTHER -> st.totalWritten

\* The names of the rejection counters of a builder.
RejectionCounters(b) ==
    CASE b = "airports" ->
            {"skipped_missing_ident", "skipped_missing_latlon", "skipped_missing_name",
             "skipped_filtered", "skipped_parse_errors"}
      [] b \in {"navaids", "fixes"} ->
            {"skippedMissingIdent", "skippedMissingLatLon", "skippedParseErrors"}
      [] b = "runways" -> {"skippedMissingArptRwy", "skippedParseErrors"}
      [] b = "airways" -> {"skippedMissingAwyId"}
      [] b = "ils" -> {"skippedMissingKey"}
      [] b \in {"departures", "arrivals"} -> {"skippedMissingId"}
      [] b = "comms" -> {"skippedParseErrors", "skippedDuplicateId"}
      [] b = "frequencies" -> {"skippedMissingFreq", "skippedMissingFacility"}

RECURSIVE SumOver(_, _)
SumOver(st, names) ==
    IF names = {} THEN 0
    ELSE LET n == CHOOSE x \in names : TRUE IN st[n] + SumOver(st, names \ {n})

\* The sum of the rejection counters.
Rejected(b, st) == SumOver(st, RejectionCounters(b))

\* The duplicate counter of a run; 0 when the builder keeps none.
DuplicateCounter(st) ==
    IF "skippedDuplicateId" \in DOMAIN st THEN st.skippedDuplicateId ELSE 0

\* This step reads a row that passes every filter, whose identifier an entity
\* already holds, and leaves the entities as they are.
DropsDuplicate ==
    /\ pc = "primary" /\ builder \in KeyedBuilders
    /\ Len(file') = Len(file) + 1
    /\ LET fr == Fresh(builder, file'[Len(file')])
       IN fr # None /\ DictHas(Entities, fr[1])
    /\ Entities' = Entities

(***************************************************************************)
(* Properties of the counters                                              *)
(***************************************************************************)

\* C4: in every builder, each primary row that is dropped because its canonical
\* identifier was already seen increments a duplicate counter by exactly 1.
C4_DuplicateCounted ==
    [][DropsDuplicate => DuplicateCounter(stats') = DuplicateCounter(stats) + 1]_vars

\* C5: at the end of a run the rejection counters sum to the rows read minus the
\* rows written: every row read and not written incremented exactly one of them,
\* and no written row incremented any.
C5_RejectionsSum ==
    pc = "done" => Rejected(builder, stats) =
                       RowsRead(builder, stats) - Written(builder, stats)

(***************************************************************************)
(* Properties of the synthetic identifier                                  *)
(***************************************************************************)

\* The row has no outlet code.
NoOutletCode(row) == Falsy(NaturalOutletId(row))

\* id is the prefix SYN: followed by exactly n hexadecimal digits.
IsSynWithDigits(id, n) ==
    /\ Len(id) = Len(SynPrefix) + n
    /\ SubSeq(id, 1, Len(SynPrefix)) = SynPrefix
    /\ \A k \in (Len(SynPrefix) + 1)..Len(id) :
          \E h \in 1..Len(HexDigits) : id[k] = HexDigits[h]

\* Every row without an outlet code that the first run has read has an
\* identifier of n digits after the prefix, and the run has seen that identifier.
SyntheticIdsHaveDigits(n) ==
    (builder = "comms" /\ pc \in {"primary", "done"}) =>
        \A i \in 1..Len(file) :
            NoOutletCode(file[i]) =>
                /\ IsSynWithDigits(OutletId(file[i]), n)
                /\ OutletId(file[i]) \in seen_ids
                /\ \E e \in 1..Len(out_list) : out_list[e].outlet_id = OutletId(file[i])

\* C7 as stated: a row with blank COMM_LOC_ID and COM_OUTLET_ID is given the
\* prefix SYN: followed by a digest of exactly 64 hexadecimal characters.
C7_SynPlus64Hex == SyntheticIdsHaveDigits(64)

\* C7 as amended: a row with blank COMM_LOC_ID and COM_OUTLET_ID is given the
\* prefix SYN: followed by the SHA-1 digest, exactly 40 hexadecimal characters.
C7_SynPlus40Hex == SyntheticIdsHaveDigits(40)

\* C7 witness: a finished run wrote a record under a synthetic identifier.
C7_Witness ==
    /\ builder = "comms" /\ pc = "done"
    /\ stats.writtenWithSyntheticId >= 1
    /\ \E i \in 1..Len(file) :
          /\ NoOutletCode(file[i])
          /\ \E e \in 1..Len(out_list) :
                /\ out_list[e].outlet_id = OutletId(file[i])
                /\ out_list[e] = CommsRecord(file[i], OutletId(file[i]))

\* C8: in build_comms no identifier taken from COMM_LOC_ID or COM_OUTLET_ID
\* equals an identifier _build_synthetic_id produces, so a row with a natural
\* identifier and a row with a synthetic one are never duplicates of each other.
C8_IdSpacesDisjoint ==
    builder = "comms" =>
        \A i, j \in 1..Len(file) :
            (~NoOutletCode(file[i]) /\ NoOutletCode(file[j])) =>
                OutletId(file[i]) # OutletId(file[j])

\* The eleven key fields of a row, normalized: trimmed and upper-cased, latitude
\* and longitude in six-decimal format.
NormKey(row) ==
    [i \in 1..Len(SYNTHETIC_KEY_FIELDS) |-> SyntheticPart(row, SYNTHETIC_KEY_FIELDS[i])]

\* Rows i < j of the file have no outlet code and the same normalized key fields.
SameSyntheticKey(i, j) ==
    /\ i < j
    /\ NoOutletCode(file[i]) /\ NoOutletCode(file[j])
    /\ NormKey(file[i]) = NormKey(file[j])

\* The index of the first row of the file whose identifier is id.
FirstWithId(id) ==
    CHOOSE i \in 1..Len(file) :
        OutletId(file[i]) = id /\ \A k \in 1..(i - 1) : OutletId(file[k]) # id

\* C9: two rows without an outlet code that agree on the eleven normalized fields
\* of SYNTHETIC_KEY_FIELDS, whatever their EFF_DATE and other fields, get the same
\* synthetic identifier, and the second is dropped as a duplicate: one record
\* carries the identifier, it is not made from the second row's position, and the
\* duplicate counter has counted every dropped row.
C9_KeyFieldsOnly ==
    (builder = "comms" /\ pc \in {"primary", "done"}) =>
        \A i, j \in 1..Len(file) :
            SameSyntheticKey(i, j) =>
                LET id == OutletId(file[j])
                IN /\ OutletId(file[i]) = id
                   /\ Cardinality({e \in 1..Len(out_list) : out_list[e].outlet_id = id}) = 1
                   /\ FirstWithId(id) <= i
                   /\ \A e \in 1..Len(out_list) :
                         out_list[e].outlet_id = id =>
                             out_list[e] = CommsRecord(file[FirstWithId(id)], id)
                   /\ stats.skippedDuplicateId >= 1
                   /\ stats.skippedDuplicateId = Len(file) - Len(out_list)

\* C9 witness: a finished run read two rows without an outlet code that agree on
\* the normalized key fields and differ in EFF_DATE and in the spelling of a key
\* field.
C9_Witness ==
    /\ builder = "comms" /\ pc = "done"
    /\ \E i, j \in 1..Len(file) :
          /\ SameSyntheticKey(i, j)
          /\ file[i].EFF_DATE # file[j].EFF_DATE
          /\ file[i].COMM_TYPE # file[j].COMM_TYPE

(***************************************************************************)
(* Properties of the output order                                          *)
(***************************************************************************)

\* C10: the output list of every dataset with a canonical identifier (airports,
\* navaids, fixes, runways, airways, ILS, departures, arrivals, comms) is in
\* ascending lexicographic order of the identifier.
C10_SortedById ==
    (pc = "done" /\ builder \in KeyedBuilders) =>
        \A i \in 1..(Len(out_list) - 1) :
            TupleLess(RecId(builder, out_list[i]), RecId(builder, out_list[i + 1]))

(***************************************************************************)
(* Child collections                                                       *)
(***************************************************************************)

\* The child collections of a record of builder b, each as a list.
ChildLists(b, rec) ==
    CASE b = "airports"   -> <<rec.runways>> \o
                             [k \in 1..Len(rec.frequencies) |-> rec.frequencies[k][2]]
      [] b = "runways"    -> <<rec.ends>>
      [] b = "airways"    -> <<rec.segments>>
      [] b = "departures" -> <<rec.route, rec.airports>>
      [] b = "arrivals"   -> <<rec.route, rec.airports>>
      [] b = "ils"        -> <<rec.components.dme, rec.components.gs,
                               rec.components.markers>>
      [] OTHER            -> <<>>

NoRepeat(seq) == \A i, j \in 1..Len(seq) : i # j => seq[i] # seq[j]

\* A run whose build function has returned its list.
Returned == pc \in {"done", "written", "fatal"}

\* C11: in the list a builder returns, no child collection of a record (airport
\* runways and frequency lists, runway ends, airway segments, procedure route and
\* airports, ILS dme, gs and markers) holds two equal elements.
C11_NoEqualChildren ==
    Returned =>
        \A k \in 1..Len(out_list) :
            \A c \in 1..Len(ChildLists(builder, out_list[k])) :
                NoRepeat(ChildLists(builder, out_list[k])[c])

(***************************************************************************)
(* Joining the components of an ILS                                        *)
(***************************************************************************)

\* The secondary row a step has just read, with its source.
LastChild == child_file'[Len(child_file')]

\* A step that reads one row of a secondary source of build_ils.
IlsComponentRead == builder = "ils" /\ Len(child_file') = Len(child_file) + 1

\* The positions of the ILS entities whose components the step changes.
IlsChanged == {i \in 1..Len(by_id) : by_id'[i][2].components # by_id[i][2].components}

\* Entity i receives the row of LastChild, once, in the collection of its source.
IlsReceives(i) ==
    by_id'[i][2].components =
        [by_id[i][2].components EXCEPT ![IlsCollection[LastChild[1]]] =
            Append(@, AllKeys(LastChild[2]))]

\* C12: a step of build_ils that reads a DME, GS or marker row changes the
\* components of at most one ILS entity, which receives the row once; when the
\* full key of the row (airport, runway, localizer id) is the key of an entity,
\* that entity is the one.
C12_ExactKeyOnly ==
    [][IlsComponentRead =>
          /\ Cardinality(IlsChanged) <= 1
          /\ \A i \in IlsChanged : IlsReceives(i)
          /\ LET key == DmeKey(LastChild[2])
             IN (key # None /\ DictHas(by_id, key)) =>
                    IlsChanged = {DictIndex(by_id, key)}]_vars

\* The components of a record are all empty.
NoComponents(rec) ==
    rec.components.dme = <<>> /\ rec.components.gs = <<>> /\ rec.components.markers = <<>>

\* A component row of the key of one entity has been attached to it while another
\* entity of the same airport and runway, earlier in the dict, has none.
C12_Witness ==
    /\ builder = "ils"
    /\ \E n \in 1..Len(child_file) :
          LET key == DmeKey(child_file[n][2])
              c   == IlsCollection[child_file[n][1]]
          IN /\ key # None /\ DictHas(by_id, key)
             /\ AllKeys(child_file[n][2]) \in Range(DictGet(by_id, key).components[c])
             /\ \E j \in 1..(DictIndex(by_id, key) - 1) :
                   /\ by_id[j][1][1] = key[1] /\ by_id[j][1][2] = key[2]
                   /\ NoComponents(by_id[j][2])

\* The positions of the ILS entities of the airport and runway of a key.
ReducedHits(d, key) == {i \in 1..Len(d) : d[i][1][1] = key[1] /\ d[i][1][2] = key[2]}

\* C13: a step of build_ils that reads a component row whose full key is the key
\* of no ILS entity attaches it to the entity of its airport and runway when there
\* is exactly one, and changes no entity when there is none.
C13_FallbackJoin ==
    [][IlsComponentRead =>
          LET key == DmeKey(LastChild[2])
          IN (key # None /\ ~DictHas(by_id, key)) =>
                /\ Cardinality(ReducedHits(by_id, key)) = 1 =>
                      /\ IlsChanged = ReducedHits(by_id, key)
                      /\ \A i \in IlsChanged : IlsReceives(i)
                /\ ReducedHits(by_id, key) = {} => IlsChanged = {}]_vars

\* A component row of the key of no entity has been attached to the one entity of
\* its airport and runway, and a row of an airport without ILS has been read.
C13_Witness ==
    /\ builder = "ils"
    /\ \E n \in 1..Len(child_file) :
          LET key == DmeKey(child_file[n][2])
              c   == IlsCollection[child_file[n][1]]
          IN /\ key # None /\ ~DictHas(by_id, key)
             /\ Cardinality(ReducedHits(by_id, key)) = 1
             /\ \A i \in ReducedHits(by_id, key) :
                   AllKeys(child_file[n][2]) \in Range(by_id[i][2].components[c])
    /\ \E n \in 1..Len(child_file) :
          LET key == DmeKey(child_file[n][2])
          IN key # None /\ by_id # <<>> /\ ReducedHits(by_id, key) = {}

(***************************************************************************)
(* Secondary rows that find no parent                                      *)
(***************************************************************************)

\* The builders that join the rows of a secondary source to a parent entity.
JoinBuilders == {"ils", "runways", "airways", "departures", "arrivals"}

\* The position in d of the parent the secondary row `row` of builder b is joined
\* to, 0 when a key field is missing or no parent matches.
ChildParent(b, d, row) ==
    CASE b = "ils" ->
           IF DmeKey(row) = None THEN 0 ELSE IlsParent(d, DmeKey(row))
      [] b = "runways" ->
           LET arpt == Strip(row, "ARPT_ID")
               rwy  == Strip(row, "RWY_ID")
               key  == <<StrUpper(arpt), StrUpper(rwy)>>
           IN IF Falsy(arpt) \/ Falsy(rwy) \/ ~DictHas(d, key) THEN 0
              ELSE DictIndex(d, key)
      [] b = "airways" ->
           LET raw == Strip(row, "AWY_ID")
           IN IF Falsy(raw) \/ ~DictHas(d, StrUpper(raw)) THEN 0
              ELSE DictIndex(d, StrUpper(raw))
      [] b = "departures" ->
           LET raw == DepartureId(row)
           IN IF Falsy(raw) \/ ~DictHas(d, StrUpper(raw)) THEN 0
              ELSE DictIndex(d, StrUpper(raw))
      [] b = "arrivals" ->
           LET raw == ArrivalId(row)
           IN IF Falsy(raw) \/ ~DictHas(d, StrUpper(raw)) THEN 0
              ELSE DictIndex(d, StrUpper(raw))

\* The counters of rows read, which every row increments.
RowsReadCounters ==
    {"baseRows", "dmeRows", "gsRows", "mkrRows", "rteRows", "aptRows", "totalRowsRead",
     "totalEndRowsRead", "baseRowsRead", "segRowsRead"}

\* A step that reads one row of a secondary source of a joining builder.
ChildRead == builder \in JoinBuilders /\ Len(child_file') = Len(child_file) + 1

\* C14: a step that reads a secondary row (ILS component, runway end, airway
\* segment, procedure route or airport row) which is joined to no parent, a key
\* field being absent or no parent matching, increments a diagnostic counter other
\* than the count of rows read.
C14_UnattachedCounted ==
    [][(ChildRead /\ ChildParent(builder, by_id, LastChild[2]) = 0) =>
          \E c \in (DOMAIN stats) \ RowsReadCounters : stats'[c] = stats[c] + 1]_vars

\* The positions of the runways of airport arpt.
RunwaysOfAirport(d, arpt) == {i \in 1..Len(d) : d[i][1][1] = arpt}

\* C15: a step of build_runways that reads a runway-end row with airport and
\* runway id, whose key is the key of no runway while exactly one runway has its
\* airport, appends the end to that runway's ends.
C15_EndFallback ==
    [][(builder = "runways" /\ ChildRead) =>
          LET row  == LastChild[2]
              arpt == Strip(row, "ARPT_ID")
              rwy  == Strip(row, "RWY_ID")
              hits == RunwaysOfAirport(by_id, StrUpper(arpt))
          IN (/\ ~Falsy(arpt) /\ ~Falsy(rwy)
              /\ ~DictHas(by_id, <<StrUpper(arpt), StrUpper(rwy)>>)
              /\ Cardinality(hits) = 1) =>
                 \A i \in hits :
                    by_id'[i][2].ends =
                        Append(by_id[i][2].ends, RunwayEnd(row, Strip(row, "RWY_END_ID")))]_vars

\* The position, among the positions hits of d, of the entity whose key comes
\* first in sorted order.
FirstSorted(d, hits) == CHOOSE i \in hits : \A j \in hits \ {i} : TupleLess(d[i][1], d[j][1])

\* C16: a step of build_ils that reads a component row whose full key is the key
\* of no entity, while entities of its airport and runway exist, attaches the row
\* to the one of them whose full key comes first in sorted order, whatever the
\* order of the rows of ILS_BASE.
C16_FallbackSortedFirst ==
    [][IlsComponentRead =>
          LET key == DmeKey(LastChild[2])
          IN (key # None /\ ~DictHas(by_id, key) /\ ReducedHits(by_id, key) # {}) =>
                IlsChanged = {FirstSorted(by_id, ReducedHits(by_id, key))}]_vars

(***************************************************************************)
(* Domain exclusion and fatal conditions of build_airports                 *)
(***************************************************************************)

\* The rows of APT_BASE read so far that pass the identifier and coordinate
\* filters and are of an excluded kind (private, heliport, seaplane base, closed).
ExcludedRows ==
    {n \in 1..Len(file) : Accepted("airports", file[n]) /\ ShouldExcludeAirport(file[n])}

\* C17: in the list build_airports returns there is no airport of the identifier
\* of a row with valid identifier and coordinates whose type is PRIVATE (or
\* heliport, seaplane base, status closed), and skipped_filtered counts those rows.
C17_PrivateExcluded ==
    (builder = "airports" /\ Returned) =>
        /\ \A n \in ExcludedRows :
              \A k \in 1..Len(out_list) :
                  out_list[k].identifier # Fresh("airports", file[n])[1]
        /\ stats.skipped_filtered = Cardinality(ExcludedRows)

\* main() has ended, with a document written or with a fatal error.
MainEnded == pc \in {"written", "fatal"}

\* C18: when main() of a builder ends and the build function returned no entity,
\* it has ended in a fatal error with a reported message and the output document
\* is the one an earlier run left.
C18_EmptyIsFatal ==
    (MainEnded /\ out_list = <<>>) => (pc = "fatal" /\ err # None /\ doc = OldDoc)

\* None of the names is a column of the header, exactly or case-insensitively.
Absent(names) ==
    \A n \in Range(names) : \A h \in Range(header) : ColumnUpper(h) # ColumnUpper(n)

\* The resolve() calls of build_airports none of whose names is in the header.
MissingRequired == {i \in 1..Len(RequiredColumns) : Absent(RequiredColumns[i][2])}

\* C19: once build_airports is past the resolution of a header that lacks a
\* required column and all its alternates, the build has aborted with no row read
\* and no entity, the reported error names the canonical column and the header,
\* and the output document is the one an earlier run left.
C19_MissingColumnAborts ==
    (builder = "airports" /\ pc # "start" /\ MissingRequired # {}) =>
        /\ pc = "aborted"
        /\ file = <<>> /\ by_id = <<>> /\ out_list = <<>>
        /\ \E i \in MissingRequired :
              err = <<"required column not found", RequiredColumns[i][2][1], header>>
        /\ doc = OldDoc

\* The build has aborted on a header without the LAT_DECIMAL column.
C19_Witness ==
    /\ builder = "airports" /\ pc = "aborted"
    /\ "LAT_DECIMAL" \notin Range(header)
    /\ err = <<"required column not found", "LAT_DECIMAL", header>>

\* The fields of an airport whose column the builder's comments call optional.
OptionalFields == {"icao_id"}

\* The header lacks the column of an optional field and of no other field.
OnlyOptionalMissing ==
    /\ MissingRequired # {}
    /\ {RequiredColumns[i][1] : i \in MissingRequired} \subseteq OptionalFields

\* C20: a run of build_airports on a header that lacks only the ICAO_ID column
\* (and its alternate ICAO) does not abort, and every entity has a null icao_id.
C20_IcaoOptional ==
    (builder = "airports" /\ OnlyOptionalMissing) =>
        /\ pc # "aborted"
        /\ \A k \in 1..Len(by_id) : by_id[k][2].icao_id = None

(***************************************************************************)
(* Rows that cannot be converted                                           *)
(***************************************************************************)

\* A step that reads one row of a primary or secondary source of a build.
RowRead ==
    /\ pc \in ReadingStages
    /\ Len(file') + Len(child_file') = Len(file) + Len(child_file) + 1

\* C21: a step that reads a data row, whatever its fields (missing, malformed,
\* numeric text that cannot be converted to an integer), leaves the build function
\* in its row loops: the row is dropped or its field stored as absent, and the
\* next row can be read; no exception leaves the build function.
C21_RowNeverAborts == [][RowRead => pc' \in ReadingStages]_vars

\* C22: when a build function has returned, the written counter of its
\* diagnostics equals the number of entities of the list it returned, for every
\* builder, inputs with repeated identifiers included.
C22_WrittenIsListLength ==
    pc = "done" => Written(builder, stats) = Len(out_list)

(***************************************************************************)
(* The two documents of build_procedures                                   *)
(***************************************************************************)

ProcedureBuilders == {"departures", "arrivals"}

\* The list build_departures returned to main().
DepList == IF builder = "departures" THEN out_list ELSE other_list

\* The list build_arrivals returned to main().
ArrList == IF builder = "arrivals" THEN out_list ELSE other_list

\* C23: when main() of build_procedures has ended and the departures list or the
\* arrivals list was empty, it has ended in a fatal error naming the empty output,
\* and departures.json and arrivals.json are both the documents an earlier run
\* left: neither has been written.
C23_NoPartialWrite ==
    (builder \in ProcedureBuilders /\ MainEnded /\ (DepList = <<>> \/ ArrList = <<>>)) =>
        /\ pc = "fatal"
        /\ err = <<"output is empty", IF DepList = <<>> THEN "departures" ELSE "arrivals">>
        /\ doc = OldDoc

\* main() has refused to write although build_departures returned procedures,
\* build_arrivals having returned none.
C23_Witness ==
    /\ builder = "departures" /\ pc = "fatal"
    /\ out_list # <<>> /\ other_list = <<>>
    /\ doc = OldDoc

(***************************************************************************)
(* The build functions as functions of their sources                       *)
(***************************************************************************)

\* The entities after the primary row loop of builder b has read rows.
RECURSIVE PrimaryPass(_, _)
PrimaryPass(b, rows) ==
    IF rows = <<>> THEN <<>>
    ELSE StepOf(b, PrimaryPass(b, SubSeq(rows, 1, Len(rows) - 1)), ZeroStats(b),
                rows[Len(rows)]).d

\* The entities after one iteration of the row loop of the secondary source src
\* of builder b.
ChildStepOf(b, d, src, row) ==
    CASE b = "ils" -> IlsComponentStep(d, ZeroStats(b), src, row).d
      [] b = "runways" -> RunwayEndsStep(d, ZeroStats(b), row).d
      [] b = "airways" -> AirwaySegsStep(d, ZeroStats(b), row).d
      [] b = "departures" /\ src = "rte" ->
            ProcRouteStep(d, ZeroStats(b), row, DepartureId(row)).d
      [] b = "departures" /\ src = "apt" ->
            ProcAirportsStep(d, ZeroStats(b), row, DepartureId(row)).d
      [] b = "arrivals" /\ src = "rte" ->
            ProcRouteStep(d, ZeroStats(b), row, ArrivalId(row)).d
      [] b = "arrivals" /\ src = "apt" ->
            ProcAirportsStep(d, ZeroStats(b), row, ArrivalId(row)).d

\* The entities after the secondary row loops of builder b have read children,
\* a list of <<source, row>>, starting from the entities d.
RECURSIVE ChildPass(_, _, _)
ChildPass(b, d, children) ==
    IF children = <<>> THEN d
    ELSE LET last == children[Len(children)]
         IN ChildStepOf(b, ChildPass(b, d, SubSeq(children, 1, Len(children) - 1)),
                        last[1], last[2])

\* The list builder b returns for the entities d: the closing loop that sorts the
\* child collections and lists the entities in the order of their keys.
FinalList(b, d) ==
    CASE b = "ils" -> SortedValuesTuple(d)
      [] b = "runways" ->
            SortedValuesTuple([i \in 1..Len(d) |-> <<d[i][1], RunwaysFinal(d[i][2])>>])
      [] b = "airways" ->
            SortedValuesStr([i \in 1..Len(d) |-> <<d[i][1], AirwaysFinal(d[i][2])>>])
      [] b \in {"departures", "arrivals"} ->
            SortedValuesStr([i \in 1..Len(d) |-> <<d[i][1], ProcFinal(d[i][2])>>])

\* The list builder b returns for a primary source of rows and secondary sources
\* of children.
BuildOutput(b, rows, children) == FinalList(b, ChildPass(b, PrimaryPass(b, rows), children))

\* seq with its elements i and i + 1 exchanged.
Swapped(seq, i) ==
    [k \in 1..Len(seq) |->
        IF k = i THEN seq[i + 1] ELSE IF k = i + 1 THEN seq[i] ELSE seq[k]]

\* C24: the list build_ils, build_departures, build_arrivals, build_airways or
\* build_runways returns is the list it returns when two neighbouring rows of one
\* of its secondary sources are exchanged: the same entities with the same child
\* collections in the same order.
C24_ChildOrderIrrelevant ==
    (pc = "done" /\ builder \in JoinBuilders) =>
        \A i \in 1..(Len(child_file) - 1) :
            child_file[i][1] = child_file[i + 1][1] =>
                BuildOutput(builder, file, Swapped(child_file, i)) = out_list

\* The list a build function has returned is the one BuildOutput gives for the
\* rows it has read.
OutputReplayed ==
    (pc = "done" /\ builder \in JoinBuilders) =>
        BuildOutput(builder, file, child_file) = out_list

(***************************************************************************)
(* The order of segments                                                   *)
(***************************************************************************)

\* The builders whose entities hold segments with a sequence number.
SegmentBuilders == {"airways", "departures", "arrivals"}

\* The segments of an airway, the route of a procedure.
Segments(b, rec) == IF b = "airways" THEN rec.segments ELSE rec.route

\* The fix_id of a segment as a text, "" when absent.
FixId(s) == Or(s.fix_id, <<>>)

\* C25: in every airway and procedure of a returned list, of two segments with a
\* sequence number the one with the smaller number comes first, and of two with
\* the same number the one whose fix_id is the smaller text comes first.
C25_SegmentsBySeqThenFix ==
    (Returned /\ builder \in SegmentBuilders) =>
        \A k \in 1..Len(out_list) :
            LET segs == Segments(builder, out_list[k])
            IN \A i, j \in 1..Len(segs) :
                  (i < j /\ segs[i].seq # None /\ segs[j].seq # None) =>
                      /\ segs[i].seq[2] <= segs[j].seq[2]
                      /\ segs[i].seq[2] = segs[j].seq[2] =>
                            ~StrLess(FixId(segs[j]), FixId(segs[i]))

\* C26: in every airway and procedure of a returned list, every segment without a
\* sequence number (SEQNO absent or not a number) comes before every segment with
\* one, whatever integer _int_or_none returned for it.
C26_AbsentSeqFirst ==
    (Returned /\ builder \in SegmentBuilders) =>
        \A k \in 1..Len(out_list) :
            LET segs == Segments(builder, out_list[k])
            IN \A i, j \in 1..Len(segs) :
                  (segs[i].seq = None /\ segs[j].seq # None) => i < j

(***************************************************************************)
(* The keys of the child rows of build_airports                            *)
(***************************************************************************)

\* The ARPT_ID of a runway or frequency row of build_airports, trimmed and
\* upper-cased as the row loop of APT_BASE does for the key of an airport.
ChildAirportId(row) ==
    StrUpper(StrStrip(Or(Pick(row, <<"ARPT_ID", "IDENT", "LOCID", "SITE_NUMBER">>), <<>>)))

\* The runway id of a runway row, "" when blank.
ChildRunwayId(row) ==
    StrUpper(StrStrip(Or(Pick(row, <<"RWY_ID", "RUNWAY_ID", "BASE_RWY", "IDENT">>), <<>>)))

\* The mapped type of a frequency row, "" when the type is not one of clearance,
\* ground, tower, departure.
ChildFreqKey(row) ==
    LET raw_type == StrUpper(StrStrip(Or(Pick(row, <<"TYPE", "FREQ_TYPE", "FACILITY_TYPE">>),
                                         <<>>)))
        prefix   == SubSeq(raw_type, 1, IF Len(raw_type) < 3 THEN Len(raw_type) ELSE 3)
    IN IF FreqTypeGet(raw_type) # "" THEN FreqTypeGet(raw_type) ELSE FreqTypeGet(prefix)

\* The frequency of a frequency row, "" when blank.
ChildFreqValue(row) ==
    StrStrip(Or(Pick(row, <<"FREQ", "FREQUENCY", "FREQ_VALUE">>), <<>>))

\* The child row is in the child collection of airport rec it belongs to: the
\* runway id of a runway row among the runways, the frequency of a frequency row
\* of a mapped type and well-formed value in the list of its type.
AttachedTo(rec, src, row) ==
    IF src = "rwy"
    THEN ChildRunwayId(row) = <<>> \/ ChildRunwayId(row) \in Range(rec.runways)
    ELSE (ChildFreqKey(row) # "" /\ IsFreqValue(ChildFreqValue(row))) =>
             /\ DictHas(rec.frequencies, ChildFreqKey(row))
             /\ ChildFreqValue(row) \in
                    Range(DictGet(rec.frequencies, ChildFreqKey(row)))

\* C27: in build_airports every runway or frequency row read so far whose ARPT_ID,
\* trimmed and upper-cased, is the identifier of an airport of the entity map is
\* attached to that airport.
C27_ChildKeyAsParentKey ==
    builder = "airports" =>
        \A n \in 1..Len(child_file) :
            LET aid == ChildAirportId(child_file[n][2])
            IN DictHas(by_id, aid) =>
                   AttachedTo(DictGet(by_id, aid), child_file[n][1], child_file[n][2])

(***************************************************************************)
(* Canonical identifiers                                                   *)
(***************************************************************************)

\* The primary row has a natural identifier and passes the filters of builder b.
HasNaturalId(b, row) ==
    IF b = "comms" THEN ~NoOutletCode(row) ELSE Accepted(b, row)

\* An identifier of builder b trimmed and upper-cased; the keys of the dict
\* builders are stored in that form.
Canonical(b, id) == IF b = "comms" THEN StrUpper(StrStrip(id)) ELSE id

\* The natural identifier of a primary row, trimmed and upper-cased.
CanonicalIdOf(b, row) == Canonical(b, Fresh(b, row)[1])

\* C28: when two primary rows read by a keyed builder (build_comms included) have
\* natural identifiers that are equal after trimming and upper-casing, one entity
\* carries that identifier, and it is the entity of the first such row: the later
\* row was dropped as a duplicate.
C28_CaseInsensitiveIds ==
    (builder \in KeyedBuilders /\ pc \in ReadingStages \cup {"done"}) =>
        \A i, j \in 1..Len(file) :
            (/\ i < j
             /\ HasNaturalId(builder, file[i]) /\ HasNaturalId(builder, file[j])
             /\ CanonicalIdOf(builder, file[i]) = CanonicalIdOf(builder, file[j])) =>
                LET id   == CanonicalIdOf(builder, file[i])
                    hits == {e \in 1..Len(Entities) : Canonical(builder, Entities[e][1]) = id}
                IN /\ Cardinality(hits) = 1
                   /\ \A e \in hits :
                         \E k \in 1..i :
                            /\ HasNaturalId(builder, file[k])
                            /\ Scalars(Entities[e][2]) = Scalars(Fresh(builder, file[k])[2])

(***************************************************************************)
(* resolve() of build_airports                                             *)
(***************************************************************************)

\* The positions of the names of a resolve() call that are columns of the header.
ExactAt(fieldnames, names) == {k \in 1..Len(names) : names[k] \in Range(fieldnames)}

\* The positions of the names that equal a column of the header when letter case
\* is ignored.
FoldAt(fieldnames, names) ==
    {k \in 1..Len(names) :
        \E h \in Range(fieldnames) : ColumnUpper(h) = ColumnUpper(names[k])}

\* The least element of a non-empty set of positions.
Least(S) == CHOOSE k \in S : \A m \in S : k <= m

\* col is what the resolution of names = (required, alternates...) against the
\* header is to give: the canonical name when it is a column; else the first
\* alternate that is a column; else a column that equals, letter case ignored,
\* the first name with such a column; else no column.
ResolvedAsListed(fieldnames, names, col) ==
    IF ExactAt(fieldnames, names) # {}
    THEN col = names[Least(ExactAt(fieldnames, names))]
    ELSE IF FoldAt(fieldnames, names) # {}
    THEN /\ col \in Range(fieldnames)
         /\ ColumnUpper(col) = ColumnUpper(names[Least(FoldAt(fieldnames, names))])
    ELSE col = NoColumn

\* C29: for every resolve() call of build_airports on the header of the run, the
\* column found is the canonical name when the header has it, else the first
\* alternate the header has, else the header's column that equals, letter case
\* ignored, the first of the names with such a column; an exact match wins over a
\* case-insensitive one; a build that went on to the rows found a column of the
\* header for every call.
C29_ResolveOrder ==
    builder = "airports" =>
        /\ \A i \in 1..Len(RequiredColumns) :
              ResolvedAsListed(header, RequiredColumns[i][2],
                               Resolve(header, RequiredColumns[i][2]))
        /\ pc \notin {"start", "aborted"} =>
              \A i \in 1..Len(RequiredColumns) :
                  AirportCols[RequiredColumns[i][1]] \in Range(header)

\* A run has read a row under a header where ARPT_ID is found by its lower-case
\* form, ARPT_NAME by the lower-case form of its alternate, and ICAO_ID by its
\* alternate ICAO although the header also has a lower-case icao_id.
C29_Witness ==
    /\ builder = "airports" /\ pc = "primary" /\ file # <<>>
    /\ "icao_id" \in Range(header) /\ "ICAO" \in Range(header)
    /\ AirportCols.icao_id = "ICAO"
    /\ AirportCols.arpt_id = "arpt_id"
    /\ AirportCols.name = "Name"

(***************************************************************************)
(* The frame of the secondary passes                                       *)
(***************************************************************************)

\* The entities d and e have the same identifiers in the same order and every
\* entity has the same scalar attributes in both.
SameEntities(d, e) ==
    /\ DictKeys(d) = DictKeys(e)
    /\ \A i \in 1..Len(d) : Scalars(d[i][2]) = Scalars(e[i][2])

\* Some entity holds a child: a non-empty child collection, or a list inside the
\* components of an ILS.
HasChild(rec) ==
    \E f \in DOMAIN rec \cap ChildFields :
        IF f = "components"
        THEN \E c \in DOMAIN rec[f] : rec[f][c] # <<>>
        ELSE rec[f] # <<>>

\* C30: in a run of build_airports, build_runways, build_airways, build_ils,
\* build_departures or build_arrivals that has read rows of a secondary source,
\* the entities have the identifiers and the scalar attributes the primary pass
\* over the rows of the primary source gives: a secondary row creates, deletes
\* and re-keys no entity and changes no scalar attribute.
C30_SecondaryFrame ==
    (builder \in SecondaryBuilders /\ child_file # <<>>) =>
        SameEntities(by_id, PrimaryPass(builder, file))

\* A run has read a row of a secondary source and attached it to an entity as a
\* child.
C30_Witness ==
    /\ builder \in SecondaryBuilders
    /\ child_file # <<>>
    /\ \E i \in 1..Len(by_id) : HasChild(by_id[i][2])
====
